---- MODULE Spec2Model ----
(***************************************************************************)
(* A model of core/dbt/context/providers.py: the stored-result map of a    *)
(* ProviderContext, the ref/source/metric resolvers of every provider and  *)
(* the event-time filter derivation of BaseResolver.                       *)
(***************************************************************************)
EXTENDS Integers, Sequences, FiniteSets, TLC

VARIABLES
    sql_results,        \* ProviderContext.sql_results: a dict, name -> AttrDict or None
    loads_since_store,  \* per name: load_result calls since the last store_result
    last_stored,        \* per name: the AttrDict the last store_result put in the map
    provider,           \* the Provider the context was built with
    model,              \* the requesting node (BaseResolver.model)
    args,               \* config.args and the selected resources of the run
    manifest,           \* the graph: nodes, sources and metrics by unique id
    ncalls,             \* number of ref/source/metric calls rendered so far
    db_wrapper,         \* the adapter, its config and the macro namespace of a wrapper
    context_config,     \* ContextConfig: the config calls recorded at parse time, or None
    ctx_dict,           \* the dict a context renders to (ctx.to_dict()), or None
    macro_resolver,     \* TestContext.macro_resolver: macros by unique id and by name
    self_namespace,     \* TestContext.namespace: the macros of the TestMacroNamespace
    runtime_config,     \* the RuntimeConfig of the run, shared by every context
    var,                \* the variable resolver of a context and the config it reads
    env,                \* get_invocation_context().env
    result              \* outcome of the last call made on the context or a resolver

contextVars == <<sql_results, loads_since_store, last_stored>>

resolverVars == <<provider, model, args, manifest, ncalls>>

accessorVars == <<db_wrapper, context_config, ctx_dict>>

buildVars == <<macro_resolver, self_namespace, runtime_config, var, env>>

vars == <<sql_results, loads_since_store, last_stored,
          provider, model, args, manifest, ncalls, db_wrapper, context_config, ctx_dict,
          macro_resolver, self_namespace, runtime_config, var, env,
          result>>

(***************************************************************************)
(* Bounds                                                                  *)
(***************************************************************************)
MaxLoads == 3

MaxCalls == 2

MaxTime == 3

MaxOverrides == 3

(***************************************************************************)
(* Python values                                                           *)
(***************************************************************************)
NoneV == [kind |-> "None"]

Str(s) == [kind |-> "str", s |-> s]

IntV(n) == [kind |-> "int", n |-> n]

ListV == [kind |-> "list"]

List(items) == [kind |-> "list", items |-> items]

NoCall == [op |-> "none", outcome |-> "none"]

Returned(op, name, value) ==
    [op |-> op, outcome |-> "return", name |-> name, value |-> value]

Raised(op, name, error) ==
    [op |-> op, outcome |-> "raise", name |-> name, error |-> error]

(***************************************************************************)
(* ProviderContext: load_result / store_result / store_raw_result          *)
(***************************************************************************)
ResultNames == {"main", "x", "y"}

Responses == {Str("resp1")}

Table1 == [kind |-> "Table", rows |-> <<<<"a", "b">>>>]

empty_table == [kind |-> "Table", rows |-> <<>>]

AgateTables == {NoneV, Table1}

as_matrix(table) == table.rows

AdapterResponse(message, code, rows_affected) ==
    [kind |-> "AdapterResponse", _message |-> message, code |-> code,
     rows_affected |-> rows_affected]

AttrDict(response, agate_table) ==
    [kind |-> "AttrDict", response |-> response,
     data |-> as_matrix(agate_table), table |-> agate_table]

MacroResultAlreadyLoadedError(name) ==
    [kind |-> "MacroResultAlreadyLoadedError", result_name |-> name]

\* d[name] = value of a Python dict
SetItem(d, name, value) ==
    [k \in DOMAIN d \cup {name} |-> IF k = name THEN value ELSE d[k]]

load_result_never_consumes(name) ==
    /\ loads_since_store[name] < MaxLoads
    /\ loads_since_store' =
         IF name \in DOMAIN sql_results
         THEN [loads_since_store EXCEPT ![name] = @ + 1]
         ELSE loads_since_store
    /\ result' = Returned("load_result", name,
                          IF name \in DOMAIN sql_results THEN sql_results[name] ELSE NoneV)
    /\ UNCHANGED <<sql_results, last_stored>>
    /\ UNCHANGED resolverVars
    /\ UNCHANGED accessorVars
    /\ UNCHANGED buildVars

load_result_drops_key(name) ==
    /\ loads_since_store[name] < MaxLoads
    /\ loads_since_store' =
         IF name \in DOMAIN sql_results
         THEN [loads_since_store EXCEPT ![name] = @ + 1]
         ELSE loads_since_store
    /\ IF name \in DOMAIN sql_results
       THEN /\ result' = Returned("load_result", name, sql_results[name])
            /\ sql_results' = [k \in DOMAIN sql_results \ {name} |-> sql_results[k]]
       ELSE /\ result' = Returned("load_result", name, NoneV)
            /\ UNCHANGED sql_results
    /\ UNCHANGED last_stored
    /\ UNCHANGED resolverVars
    /\ UNCHANGED accessorVars
    /\ UNCHANGED buildVars

\* load_result without the special case of "main"
load_result_consumes_main(name) ==
    /\ loads_since_store[name] < MaxLoads
    /\ loads_since_store' =
         IF name \in DOMAIN sql_results
         THEN [loads_since_store EXCEPT ![name] = @ + 1]
         ELSE loads_since_store
    /\ IF name \in DOMAIN sql_results
       THEN IF sql_results[name] = NoneV
            THEN /\ result' = Raised("load_result", name,
                                     MacroResultAlreadyLoadedError(name))
                 /\ UNCHANGED sql_results
            ELSE /\ result' = Returned("load_result", name, sql_results[name])
                 /\ sql_results' = SetItem(sql_results, name, NoneV)
       ELSE /\ result' = Returned("load_result", name, NoneV)
            /\ UNCHANGED sql_results
    /\ UNCHANGED last_stored
    /\ UNCHANGED resolverVars
    /\ UNCHANGED accessorVars
    /\ UNCHANGED buildVars

load_result(name) ==
    /\ loads_since_store[name] < MaxLoads
    /\ loads_since_store' =
         IF name \in DOMAIN sql_results
         THEN [loads_since_store EXCEPT ![name] = @ + 1]
         ELSE loads_since_store
    /\ IF name \in DOMAIN sql_results
       THEN IF name = "main"
            THEN /\ result' = Returned("load_result", name, sql_results["main"])
                 /\ UNCHANGED sql_results
            ELSE IF sql_results[name] = NoneV
            THEN /\ result' = Raised("load_result", name,
                                     MacroResultAlreadyLoadedError(name))
                 /\ UNCHANGED sql_results
            ELSE /\ result' = Returned("load_result", name, sql_results[name])
                 /\ sql_results' = SetItem(sql_results, name, NoneV)
       ELSE /\ result' = Returned("load_result", name, NoneV)
            /\ UNCHANGED sql_results
    /\ UNCHANGED last_stored
    /\ UNCHANGED resolverVars
    /\ UNCHANGED accessorVars
    /\ UNCHANGED buildVars

store_result(name, response, agate_table) ==
    LET table == IF agate_table = NoneV THEN empty_table ELSE agate_table
        value == AttrDict(response, table)
    IN  /\ sql_results' = SetItem(sql_results, name, value)
        /\ last_stored' = [last_stored EXCEPT ![name] = value]
        /\ loads_since_store' = [loads_since_store EXCEPT ![name] = 0]
        /\ result' = Returned("store_result", name, Str(""))
        /\ UNCHANGED resolverVars
        /\ UNCHANGED accessorVars
        /\ UNCHANGED buildVars

store_raw_result(name, message, code, rows_affected, agate_table) ==
    /\ store_result(name, AdapterResponse(message, code, rows_affected), agate_table)

LoadResult == \E name \in ResultNames : load_result(name)

StoreResult ==
    \E name \in ResultNames, response \in Responses, agate_table \in AgateTables :
        store_result(name, response, agate_table)

StoreRawResult ==
    \E name \in ResultNames, agate_table \in AgateTables :
        store_raw_result(name, Str("OK"), Str("SELECT"), Str("1"), agate_table)

(***************************************************************************)
(* BaseResolver: the event-time filter                                     *)
(***************************************************************************)
Truthy(x) ==
    CASE x.kind = "None" -> FALSE
      [] x.kind = "str" -> x.s # ""
      [] x.kind = "int" -> x.n # 0
      [] x.kind = "list" -> "items" \notin DOMAIN x \/ Len(x.items) > 0
      [] OTHER -> TRUE

\* Column.create(name, data_type).quoted
Quoted(name) == "\"" \o name \o "\""

EventTimeFilter(field_name, start, end) ==
    [kind |-> "EventTimeFilter", field_name |-> field_name, start |-> start, end |-> end]

\* the first entry of target.columns named like the configured event time
MatchingColumn(target) ==
    LET idx == {i \in 1..Len(target.columns) :
                   Str(target.columns[i].name) = target.config.event_time}
    IN  IF idx = {} THEN NoneV
        ELSE target.columns[CHOOSE i \in idx : \A j \in idx : i <= j]

\* the target-level default consulted before the column's own setting
_resolve_event_time_field_name_target_first(target) ==
    LET column_info == MatchingColumn(target)
        should_quote ==
            IF column_info = NoneV THEN FALSE
            ELSE IF target.quoting # NoneV /\ target.quoting.column # "None"
                 THEN target.quoting.column = "True"
            ELSE IF column_info.quote # "None" THEN column_info.quote = "True"
            ELSE FALSE
    IN  IF should_quote THEN Str(Quoted(column_info.name)) ELSE target.config.event_time

_resolve_event_time_field_name(target) ==
    LET column_info == MatchingColumn(target)
        should_quote ==
            IF column_info = NoneV THEN FALSE
            ELSE IF column_info.quote # "None" THEN column_info.quote = "True"
            ELSE IF target.quoting # NoneV /\ target.quoting.column # "None"
                 THEN target.quoting.column = "True"
            ELSE FALSE
    IN  IF should_quote THEN Str(Quoted(column_info.name)) ELSE target.config.event_time

IsMicrobatch(m, use_microbatch_batches) ==
    /\ m.kind = "ModelNode"
    /\ m.config.materialized = "incremental"
    /\ m.config.incremental_strategy = "microbatch"
    /\ use_microbatch_batches
    /\ m.batch # NoneV

\* start of the window of a sampled microbatch model
sample_start_ignores_batch(a, m) == a.sample.start

sample_microbatch_start(a, m) ==
    IF a.sample.start > m.batch.event_time_start
    THEN a.sample.start
    ELSE m.batch.event_time_start

\* end of the window of a sampled microbatch model
sample_microbatch_end(a, m) ==
    IF a.sample.end < m.batch.event_time_end
    THEN a.sample.end
    ELSE m.batch.event_time_end

\* the filter of a microbatch model outside sample mode
batch_filter_ends_at_start(field_name, m) ==
    EventTimeFilter(field_name, m.batch.event_time_start, m.batch.event_time_start)

regular_microbatch_filter(field_name, m) ==
    EventTimeFilter(field_name, m.batch.event_time_start, m.batch.event_time_end)

\* the gate without the test on the requesting resource
event_time_gate_any_requester(m, target) ==
    /\ target.config.kind \in {"NodeConfig", "SeedConfig", "SourceConfig"}
    /\ Truthy(target.config.event_time)

\* "only do event time filtering if the base node has the necessary event time configs"
event_time_gate(m, target) ==
    /\ target.config.kind \in {"NodeConfig", "SeedConfig", "SourceConfig"}
    /\ Truthy(target.config.event_time)
    /\ m.kind \in {"ModelNode", "SnapshotNode"}

\* sample mode tested before the microbatch case
resolve_event_time_filter_sample_first(m, target, a, use_microbatch_batches) ==
    LET sample_mode == a.sample # NoneV
        field_name == _resolve_event_time_field_name(target)
    IN  IF event_time_gate(m, target)
        THEN IF sample_mode
             THEN EventTimeFilter(field_name, a.sample.start, a.sample.end)
             ELSE IF IsMicrobatch(m, use_microbatch_batches)
                  THEN regular_microbatch_filter(field_name, m)
                  ELSE NoneV
        ELSE NoneV

resolve_event_time_filter(m, target, a, use_microbatch_batches) ==
    LET sample_mode == a.sample # NoneV
        field_name == _resolve_event_time_field_name(target)
    IN  IF event_time_gate(m, target)
        THEN IF IsMicrobatch(m, use_microbatch_batches)
             THEN IF sample_mode
                  THEN EventTimeFilter(field_name, sample_microbatch_start(a, m),
                                       sample_microbatch_end(a, m))
                  ELSE regular_microbatch_filter(field_name, m)
             ELSE IF sample_mode
                  THEN EventTimeFilter(field_name, a.sample.start, a.sample.end)
                  ELSE NoneV
        ELSE NoneV

(***************************************************************************)
(* The graph consumed by the resolvers                                     *)
(***************************************************************************)
current_project == "root"

NoQuoting == NoneV

NodeConfig(event_time) == [kind |-> "NodeConfig", event_time |-> event_time]

SourceConfig(event_time) == [kind |-> "SourceConfig", event_time |-> event_time]

ColumnInfo(name, quote) == [name |-> name, data_type |-> "timestamp", quote |-> quote]

ModelTarget(name, package_name, version, access, group, ephemeral, defer, enabled, event_time) ==
    [kind |-> "ModelNode",
     unique_id |-> "model." \o package_name \o "." \o name
                   \o (IF version = NoneV THEN "" ELSE ".v" \o ToString(version.n)),
     name |-> name, package_name |-> package_name, version |-> version,
     access |-> access, group |-> group, is_ephemeral_model |-> ephemeral,
     defer_relation |-> IF defer
                        THEN [kind |-> "DeferRelation",
                              relation_name |-> "prod." \o name]
                        ELSE NoneV,
     enabled |-> enabled,
     relation_name |-> "dev." \o name,
     config |-> NodeConfig(event_time),
     columns |-> <<ColumnInfo("id", "None"), ColumnInfo("ts", "None")>>,
     quoting |-> NoQuoting]

SourceTarget(source_name, name, enabled, event_time) ==
    [kind |-> "SourceDefinition",
     unique_id |-> "source.root." \o source_name \o "." \o name,
     source_name |-> source_name, name |-> name, package_name |-> "root",
     enabled |-> enabled,
     relation_name |-> "raw." \o name,
     config |-> SourceConfig(event_time),
     columns |-> <<ColumnInfo("ts", "True")>>,
     quoting |-> [column |-> "None"]]

MetricTarget(name, package_name, enabled) ==
    [kind |-> "Metric", unique_id |-> "metric." \o package_name \o "." \o name,
     name |-> name, package_name |-> package_name, enabled |-> enabled]

ById(S) == [id \in {n.unique_id : n \in S} |-> CHOOSE n \in S : n.unique_id = id]

GraphNodes ==
    ById({ModelTarget("a", "root", NoneV, "protected", NoneV, FALSE, FALSE, TRUE, NoneV),
          ModelTarget("a", "root", IntV(2), "protected", NoneV, FALSE, FALSE, TRUE, NoneV),
          ModelTarget("p", "root", NoneV, "private", Str("g1"), FALSE, FALSE, TRUE, NoneV),
          ModelTarget("e", "root", NoneV, "protected", NoneV, TRUE, FALSE, TRUE, Str("ts")),
          ModelTarget("d", "root", NoneV, "protected", NoneV, FALSE, FALSE, FALSE, NoneV),
          ModelTarget("f", "root", NoneV, "protected", NoneV, FALSE, TRUE, TRUE, Str("ts")),
          ModelTarget("q", "pkg", NoneV, "public", NoneV, FALSE, FALSE, TRUE, NoneV)})

GraphSources ==
    ById({SourceTarget("src", "t1", TRUE, Str("ts")),
          SourceTarget("src", "t2", FALSE, NoneV)})

GraphMetrics ==
    ById({MetricTarget("m", "root", TRUE),
          MetricTarget("m2", "pkg", TRUE),
          MetricTarget("md", "root", FALSE)})

Manifest(use_microbatch_batches) ==
    [nodes |-> GraphNodes, sources |-> GraphSources, metrics |-> GraphMetrics,
     use_microbatch_batches |-> use_microbatch_batches]

Disabled(target) == [kind |-> "Disabled", target |-> target]

Values(table) == {table[id] : id \in DOMAIN table}

\* the candidate of the first package of `packages` that holds one
Lookup(candidates, packages) ==
    LET hits == {i \in 1..Len(packages) :
                    \E n \in candidates : n.package_name = packages[i]}
    IN  IF hits = {} THEN NoneV
        ELSE LET first == CHOOSE i \in hits : \A j \in hits : i <= j
                 node == CHOOSE n \in candidates : n.package_name = packages[first]
             IN  IF node.enabled THEN node ELSE Disabled(node)

SearchPackages(target_package, project, node_package) ==
    IF target_package = NoneV THEN <<project, node_package>> ELSE <<target_package.s>>

resolve_ref(mf, source_node, target_name, target_package, target_version, project, node_package) ==
    Lookup({n \in Values(mf.nodes) : n.name = target_name.s /\ n.version = target_version},
           SearchPackages(target_package, project, node_package))

resolve_source(mf, source_name, table_name, project, node_package) ==
    Lookup({n \in Values(mf.sources) :
               n.source_name = source_name.s /\ n.name = table_name.s},
           <<project, node_package>>)

resolve_metric(mf, target_name, target_package, project, node_package) ==
    Lookup({n \in Values(mf.metrics) : n.name = target_name.s},
           SearchPackages(target_package, project, node_package))

is_invalid_private_ref(node, target_model, dependencies) ==
    target_model.access = "private" /\ node.group # target_model.group

is_invalid_protected_ref(node, target_model, dependencies) ==
    target_model.access = "protected" /\ node.package_name # target_model.package_name

cast_to_str(x) == IF x = NoneV THEN Str("") ELSE x

\* node.set_cte(cte_id, None): one entry per id in extra_ctes
set_cte(m, cte_id) ==
    IF \E i \in 1..Len(m.extra_ctes) : m.extra_ctes[i] = cte_id
    THEN m
    ELSE [m EXCEPT !.extra_ctes = Append(@, cte_id)]

(***************************************************************************)
(* Relations, references and errors                                        *)
(***************************************************************************)
create_from(quoting, node, limit, event_time_filter) ==
    [kind |-> "Relation", factory |-> "create_from", quoting |-> quoting,
     relation_name |-> node.relation_name, limit |-> limit,
     event_time_filter |-> event_time_filter]

create_ephemeral_from(node, limit, event_time_filter) ==
    [kind |-> "Relation", factory |-> "create_ephemeral_from", quoting |-> "none",
     relation_name |-> "__dbt__cte__" \o node.name, limit |-> limit,
     event_time_filter |-> event_time_filter]

MetricReference(name, package) ==
    [kind |-> "MetricReference", metric_name |-> name, package_name |-> package]

ResolvedMetricReference(target_metric) ==
    [kind |-> "ResolvedMetricReference", node |-> target_metric.unique_id]

RefArgs(package, name, version) ==
    [package |-> package, name |-> name, version |-> version]

RefArgsError(node, call_args) ==
    [kind |-> "RefArgsError", node |-> node.unique_id, args |-> call_args]

NumberSourceArgsError(call_args, node) ==
    [kind |-> "NumberSourceArgsError", node |-> node.unique_id, args |-> call_args]

MetricArgsError(node, call_args) ==
    [kind |-> "MetricArgsError", node |-> node.unique_id, args |-> call_args]

CompilationError(msg) == [kind |-> "CompilationError", msg |-> msg]

TargetNotFoundError(node, target_name, target_kind, target_package, target_version, disabled) ==
    [kind |-> "TargetNotFoundError", node |-> node.unique_id,
     target_name |-> target_name, target_kind |-> target_kind,
     target_package |-> target_package, target_version |-> target_version,
     disabled |-> disabled]

DbtReferenceError(unique_id, ref_unique_id, access, scope) ==
    [kind |-> "DbtReferenceError", unique_id |-> unique_id,
     ref_unique_id |-> ref_unique_id, access |-> access, scope |-> scope]

RefBadContextError(node, ref_args) ==
    [kind |-> "RefBadContextError", node |-> node.unique_id, args |-> ref_args]

OperationsCannotRefEphemeralNodesError(target_name, node) ==
    [kind |-> "OperationsCannotRefEphemeralNodesError", node |-> node.unique_id,
     target_name |-> target_name]

\* what one call did: its outcome, the requesting node after it, and the calls
\* it made on the way, in order
Ret(value, m, calls) ==
    [outcome |-> "return", value |-> value, model |-> m, calls |-> calls]

Err(error, m, calls) ==
    [outcome |-> "raise", error |-> error, model |-> m, calls |-> calls]

(***************************************************************************)
(* ref                                                                     *)
(***************************************************************************)
RefResolvers ==
    {"ParseRefResolver", "RuntimeRefResolver", "OperationRefResolver",
     "RuntimeUnitTestRefResolver"}

\* BaseResolver.resolve_limit without the unit-test override
resolve_limit_not_overridden(resolver, a) ==
    IF a.EMPTY THEN IntV(0) ELSE NoneV

resolve_limit(resolver, a) ==
    IF resolver \in {"RuntimeUnitTestRefResolver", "RuntimeUnitTestSourceResolver"}
    THEN NoneV
    ELSE IF a.EMPTY THEN IntV(0) ELSE NoneV

ParseRefResolver_resolve_looks_up(m, name, package, version) ==
    Ret(create_from("config", m, NoneV, NoneV), m,
        <<"resolve", "manifest.resolve_ref", "Relation.create_from">>)

ParseRefResolver_resolve(m, name, package, version) ==
    Ret(create_from("config", m, NoneV, NoneV),
        [m EXCEPT !.refs = Append(@, RefArgs(package, name, version))],
        <<"resolve", "refs.append", "Relation.create_from">>)

\* get_adapter(self.config).get_relation(database, schema, identifier), with
\* the answer of the relation cache
get_relation(exists) ==
    IF exists THEN "adapter.get_relation: a relation" ELSE "adapter.get_relation: None"

\* create_relation asking the adapter before it looks at favor_state
RuntimeRefResolver_create_relation_probe_first(resolver, m, a, mf, target_model, exists, calls) ==
    IF target_model.is_ephemeral_model
    THEN Ret(create_ephemeral_from(
                 target_model, resolve_limit(resolver, a),
                 resolve_event_time_filter(m, target_model, a, mf.use_microbatch_batches)),
             set_cte(m, target_model.unique_id),
             calls \o <<"set_cte", "Relation.create_ephemeral_from">>)
    ELSE IF target_model.defer_relation # NoneV /\ a.defer
    THEN Ret(create_from(
                 "config",
                 IF \/ ~exists
                    \/ a.favor_state /\ target_model.unique_id \notin a.selected_resources
                 THEN target_model.defer_relation ELSE target_model,
                 resolve_limit(resolver, a),
                 resolve_event_time_filter(m, target_model, a, mf.use_microbatch_batches)),
             m,
             calls \o <<get_relation(exists), "Relation.create_from">>)
    ELSE Ret(create_from(
                 "config", target_model, resolve_limit(resolver, a),
                 resolve_event_time_filter(m, target_model, a, mf.use_microbatch_batches)),
             m,
             calls \o <<"Relation.create_from">>)

RuntimeRefResolver_create_relation(resolver, m, a, mf, target_model, exists, calls) ==
    IF target_model.is_ephemeral_model
    THEN Ret(create_ephemeral_from(
                 target_model, resolve_limit(resolver, a),
                 resolve_event_time_filter(m, target_model, a, mf.use_microbatch_batches)),
             set_cte(m, target_model.unique_id),
             calls \o <<"set_cte", "Relation.create_ephemeral_from">>)
    ELSE IF /\ target_model.defer_relation # NoneV
            /\ a.defer
    THEN IF \/ a.favor_state /\ target_model.unique_id \notin a.selected_resources
            \/ ~exists
         THEN Ret(create_from(
                      "config", target_model.defer_relation, resolve_limit(resolver, a),
                      resolve_event_time_filter(m, target_model, a,
                                                mf.use_microbatch_batches)),
                  m,
                  calls \o (IF a.favor_state
                               /\ target_model.unique_id \notin a.selected_resources
                            THEN <<>> ELSE <<get_relation(exists)>>)
                        \o <<"Relation.create_from">>)
         ELSE Ret(create_from(
                      "config", target_model, resolve_limit(resolver, a),
                      resolve_event_time_filter(m, target_model, a,
                                                mf.use_microbatch_batches)),
                  m,
                  calls \o <<get_relation(exists), "Relation.create_from">>)
    ELSE Ret(create_from(
                 "config", target_model, resolve_limit(resolver, a),
                 resolve_event_time_filter(m, target_model, a, mf.use_microbatch_batches)),
             m,
             calls \o <<"Relation.create_from">>)

\* create_relation registering the CTE before it refuses the ephemeral target
OperationRefResolver_create_relation_registers_first(resolver, m, a, mf, target_model, exists, calls) ==
    IF target_model.is_ephemeral_model
    THEN Err(OperationsCannotRefEphemeralNodesError(target_model.name, m),
             set_cte(m, target_model.unique_id), calls \o <<"set_cte">>)
    ELSE RuntimeRefResolver_create_relation(resolver, m, a, mf, target_model, exists, calls)

OperationRefResolver_create_relation(resolver, m, a, mf, target_model, exists, calls) ==
    IF target_model.is_ephemeral_model
    THEN Err(OperationsCannotRefEphemeralNodesError(target_model.name, m), m, calls)
    ELSE RuntimeRefResolver_create_relation(resolver, m, a, mf, target_model, exists, calls)

create_relation(resolver, m, a, mf, target_model, exists, calls) ==
    IF resolver = "OperationRefResolver"
    THEN OperationRefResolver_create_relation(resolver, m, a, mf, target_model, exists,
                                              calls \o <<"create_relation">>)
    ELSE RuntimeRefResolver_create_relation(resolver, m, a, mf, target_model, exists,
                                            calls \o <<"create_relation">>)

\* TRUE when validate returns, FALSE when it raises RefBadContextError
validate_skipped(m, resolved) == TRUE

RuntimeRefResolver_validate(m, resolved) ==
    resolved.unique_id \in m.depends_on.nodes

OperationRefResolver_validate(m, resolved) == TRUE

validate(resolver, m, resolved) ==
    IF resolver = "OperationRefResolver"
    THEN OperationRefResolver_validate(m, resolved)
    ELSE RuntimeRefResolver_validate(m, resolved)

isinstance_Disabled(target_model) ==
    target_model # NoneV /\ target_model.kind = "Disabled"

\* the disabled flag RuntimeRefResolver.resolve gives TargetNotFoundError
disabled_flag_omitted(target_model) == FALSE

ref_disabled_flag(target_model) == isinstance_Disabled(target_model)

\* the scope a private access violation reports
private_scope_is_package(target_model) == Str(target_model.package_name)

private_scope(target_model) == cast_to_str(target_model.group)

\* resolve validating the declared dependency before the access checks
RuntimeRefResolver_resolve_validates_first(resolver, m, a, mf, target_name, target_package, target_version, exists) ==
    LET target_model == resolve_ref(mf, m, target_name, target_package, target_version,
                                    current_project, m.package_name)
        looked == <<"resolve", "manifest.resolve_ref">>
        validated == looked \o <<"validate">>
        private == validated \o <<"manifest.is_invalid_private_ref">>
        protected == private \o <<"manifest.is_invalid_protected_ref">>
    IN  IF target_model = NoneV \/ isinstance_Disabled(target_model)
        THEN Err(TargetNotFoundError(m, target_name, "node", target_package,
                                     target_version, ref_disabled_flag(target_model)),
                 m, looked)
        ELSE IF ~validate(resolver, m, target_model)
        THEN Err(RefBadContextError(m, RefArgs(target_package, target_name,
                                               target_version)),
                 m, validated)
        ELSE IF is_invalid_private_ref(m, target_model, "dependencies")
        THEN Err(DbtReferenceError(m.unique_id, target_model.unique_id, "Private",
                                   private_scope(target_model)),
                 m, private)
        ELSE IF is_invalid_protected_ref(m, target_model, "dependencies")
        THEN Err(DbtReferenceError(m.unique_id, target_model.unique_id, "Protected",
                                   Str(target_model.package_name)),
                 m, protected)
        ELSE create_relation(resolver, m, a, mf, target_model, exists, protected)

RuntimeRefResolver_resolve(resolver, m, a, mf, target_name, target_package, target_version, exists) ==
    LET target_model == resolve_ref(mf, m, target_name, target_package, target_version,
                                    current_project, m.package_name)
        looked == <<"resolve", "manifest.resolve_ref">>
        private == looked \o <<"manifest.is_invalid_private_ref">>
        protected == private \o <<"manifest.is_invalid_protected_ref">>
        validated == protected \o <<"validate">>
    IN  IF target_model = NoneV \/ isinstance_Disabled(target_model)
        THEN Err(TargetNotFoundError(m, target_name, "node", target_package,
                                     target_version, ref_disabled_flag(target_model)),
                 m, looked)
        ELSE IF is_invalid_private_ref(m, target_model, "dependencies")
        THEN Err(DbtReferenceError(m.unique_id, target_model.unique_id, "Private",
                                   private_scope(target_model)),
                 m, private)
        ELSE IF is_invalid_protected_ref(m, target_model, "dependencies")
        THEN Err(DbtReferenceError(m.unique_id, target_model.unique_id, "Protected",
                                   Str(target_model.package_name)),
                 m, protected)
        ELSE IF ~validate(resolver, m, target_model)
        THEN Err(RefBadContextError(m, RefArgs(target_package, target_name,
                                               target_version)),
                 m, validated)
        ELSE create_relation(resolver, m, a, mf, target_model, exists, validated)

BaseRefResolver_validate_args(name, package, version) ==
    IF name.kind # "str"
    THEN "The name argument to ref() must be a string"
    ELSE IF package # NoneV /\ package.kind # "str"
    THEN "The package argument to ref() must be a string or None"
    ELSE IF version # NoneV /\ version.kind \notin {"str", "int", "float"}
    THEN "The version argument to ref() must be a string, int, float, or None"
    ELSE "ok"

BaseRefResolver_resolve(resolver, m, a, mf, name, package, version, exists) ==
    IF resolver = "ParseRefResolver"
    THEN ParseRefResolver_resolve(m, name, package, version)
    ELSE RuntimeRefResolver_resolve(resolver, m, a, mf, name, package, version, exists)

BaseRefResolver_call(resolver, m, a, mf, call_args, kwargs, exists) ==
    IF Len(call_args) \notin {1, 2}
    THEN Err(RefArgsError(m, call_args), m, <<>>)
    ELSE LET name == IF Len(call_args) = 1 THEN call_args[1] ELSE call_args[2]
             package == IF Len(call_args) = 1 THEN NoneV ELSE call_args[1]
             version == IF Truthy(kwargs.version) THEN kwargs.version ELSE kwargs.v
             checked == BaseRefResolver_validate_args(name, package, version)
         IN  IF checked # "ok"
             THEN Err(CompilationError(checked), m, <<>>)
             ELSE BaseRefResolver_resolve(resolver, m, a, mf, name, package, version,
                                          exists)

(***************************************************************************)
(* source                                                                  *)
(***************************************************************************)
ParseSourceResolver_resolve(m, source_name, table_name) ==
    Ret(create_from("config", m, NoneV, NoneV),
        [m EXCEPT !.sources = Append(@, <<source_name, table_name>>)],
        <<"resolve", "sources.append", "Relation.create_from">>)

RuntimeSourceResolver_resolve_validates(resolver, m, a, mf, source_name, table_name) ==
    LET target_source == resolve_source(mf, source_name, table_name, current_project,
                                        m.package_name)
        looked == <<"resolve", "manifest.resolve_source">>
    IN  IF target_source = NoneV \/ isinstance_Disabled(target_source)
        THEN Err(TargetNotFoundError(m, Str(source_name.s \o "." \o table_name.s),
                                     "source", NoneV, NoneV,
                                     isinstance_Disabled(target_source)),
                 m, looked)
        ELSE IF target_source.unique_id \notin m.depends_on.nodes
        THEN Err(RefBadContextError(m, <<source_name, table_name>>), m,
                 looked \o <<"validate">>)
        ELSE Ret(create_from(
                     "SourceQuotingBaseConfig", target_source, resolve_limit(resolver, a),
                     resolve_event_time_filter(m, target_source, a,
                                               mf.use_microbatch_batches)),
                 m, looked \o <<"validate", "Relation.create_from">>)

RuntimeSourceResolver_resolve(resolver, m, a, mf, source_name, table_name) ==
    LET target_source == resolve_source(mf, source_name, table_name, current_project,
                                        m.package_name)
        looked == <<"resolve", "manifest.resolve_source">>
    IN  IF target_source = NoneV \/ isinstance_Disabled(target_source)
        THEN Err(TargetNotFoundError(m, Str(source_name.s \o "." \o table_name.s), "source", NoneV,
                                     NoneV, isinstance_Disabled(target_source)),
                 m, looked)
        ELSE Ret(create_from(
                     "SourceQuotingBaseConfig", target_source, resolve_limit(resolver, a),
                     resolve_event_time_filter(m, target_source, a,
                                               mf.use_microbatch_batches)),
                 m, looked \o <<"Relation.create_from">>)

RuntimeUnitTestSourceResolver_resolve(resolver, m, a, mf, source_name, table_name) ==
    LET target_source == resolve_source(mf, source_name, table_name, current_project,
                                        m.package_name)
        looked == <<"resolve", "manifest.resolve_source">>
    IN  IF target_source = NoneV \/ isinstance_Disabled(target_source)
        THEN Err(TargetNotFoundError(m, Str(source_name.s \o "." \o table_name.s), "source", NoneV,
                                     NoneV, isinstance_Disabled(target_source)),
                 m, looked)
        ELSE Ret(create_ephemeral_from(target_source, NoneV, NoneV),
                 set_cte(m, target_source.unique_id),
                 looked \o <<"set_cte", "Relation.create_ephemeral_from">>)

BaseSourceResolver_validate_args(source_name, table_name) ==
    IF source_name.kind # "str"
    THEN "The source name (first) argument to source() must be a string"
    ELSE IF table_name.kind # "str"
    THEN "The table name (second) argument to source() must be a string"
    ELSE "ok"

BaseSourceResolver_resolve(resolver, m, a, mf, source_name, table_name) ==
    CASE resolver = "ParseSourceResolver" ->
             ParseSourceResolver_resolve(m, source_name, table_name)
      [] resolver = "RuntimeSourceResolver" ->
             RuntimeSourceResolver_resolve(resolver, m, a, mf, source_name, table_name)
      [] resolver = "RuntimeUnitTestSourceResolver" ->
             RuntimeUnitTestSourceResolver_resolve(resolver, m, a, mf, source_name,
                                                   table_name)

BaseSourceResolver_call_at_least_two(resolver, m, a, mf, call_args) ==
    IF Len(call_args) < 2
    THEN Err(NumberSourceArgsError(call_args, m), m, <<>>)
    ELSE LET checked == BaseSourceResolver_validate_args(call_args[1], call_args[2])
         IN  IF checked # "ok"
             THEN Err(CompilationError(checked), m, <<>>)
             ELSE BaseSourceResolver_resolve(resolver, m, a, mf, call_args[1],
                                             call_args[2])

BaseSourceResolver_call(resolver, m, a, mf, call_args) ==
    IF Len(call_args) # 2
    THEN Err(NumberSourceArgsError(call_args, m), m, <<>>)
    ELSE LET checked == BaseSourceResolver_validate_args(call_args[1], call_args[2])
         IN  IF checked # "ok"
             THEN Err(CompilationError(checked), m, <<>>)
             ELSE BaseSourceResolver_resolve(resolver, m, a, mf, call_args[1],
                                             call_args[2])

(***************************************************************************)
(* metric                                                                  *)
(***************************************************************************)
BaseMetricResolver_repack_args(name, package) ==
    IF package = NoneV THEN <<name>> ELSE <<package, name>>

ParseMetricResolver_resolve(m, name, package) ==
    Ret(MetricReference(name, package),
        [m EXCEPT !.metrics = Append(@, BaseMetricResolver_repack_args(name, package))],
        <<"resolve", "metrics.append">>)

RuntimeMetricResolver_resolve(m, mf, target_name, target_package) ==
    LET target_metric == resolve_metric(mf, target_name, target_package, current_project,
                                        m.package_name)
        looked == <<"resolve", "manifest.resolve_metric">>
    IN  IF target_metric = NoneV \/ isinstance_Disabled(target_metric)
        THEN Err(TargetNotFoundError(m, target_name, "metric", target_package, NoneV,
                                     FALSE),
                 m, looked)
        ELSE Ret(ResolvedMetricReference(target_metric), m, looked)

BaseMetricResolver_validate_args(name, package) ==
    IF name.kind # "str"
    THEN "The name argument to metric() must be a string"
    ELSE IF package # NoneV /\ package.kind # "str"
    THEN "The package argument to metric() must be a string or None"
    ELSE "ok"

BaseMetricResolver_resolve(resolver, m, mf, name, package) ==
    IF resolver = "ParseMetricResolver"
    THEN ParseMetricResolver_resolve(m, name, package)
    ELSE RuntimeMetricResolver_resolve(m, mf, name, package)

BaseMetricResolver_call(resolver, m, mf, call_args) ==
    IF Len(call_args) \notin {1, 2}
    THEN Err(MetricArgsError(m, call_args), m, <<>>)
    ELSE LET name == IF Len(call_args) = 1 THEN call_args[1] ELSE call_args[2]
             package == IF Len(call_args) = 1 THEN NoneV ELSE call_args[1]
             checked == BaseMetricResolver_validate_args(name, package)
         IN  IF checked # "ok"
             THEN Err(CompilationError(checked), m, <<>>)
             ELSE BaseMetricResolver_resolve(resolver, m, mf, name, package)

(***************************************************************************)
(* Providers                                                               *)
(***************************************************************************)
ParseProvider ==
    [execute |-> FALSE, Config |-> "ParseConfigObject",
     ref |-> "ParseRefResolver", source |-> "ParseSourceResolver",
     metric |-> "ParseMetricResolver"]

GenerateNameProvider ==
    [execute |-> FALSE, Config |-> "RuntimeConfigObject",
     ref |-> "ParseRefResolver", source |-> "ParseSourceResolver",
     metric |-> "ParseMetricResolver"]

RuntimeProvider ==
    [execute |-> TRUE, Config |-> "RuntimeConfigObject",
     ref |-> "RuntimeRefResolver", source |-> "RuntimeSourceResolver",
     metric |-> "RuntimeMetricResolver"]

RuntimeUnitTestProvider ==
    [execute |-> TRUE, Config |-> "RuntimeConfigObject",
     ref |-> "RuntimeUnitTestRefResolver",
     source |-> "RuntimeUnitTestSourceResolver", metric |-> "RuntimeMetricResolver"]

OperationProvider == [RuntimeProvider EXCEPT !.ref = "OperationRefResolver"]

Provider ==
    [name \in {"Parse", "GenerateName", "Runtime", "RuntimeUnitTest", "Operation"} |->
        CASE name = "Parse" -> ParseProvider
          [] name = "GenerateName" -> GenerateNameProvider
          [] name = "Runtime" -> RuntimeProvider
          [] name = "RuntimeUnitTest" -> RuntimeUnitTestProvider
          [] name = "Operation" -> OperationProvider]

(***************************************************************************)
(* Requesting nodes, run arguments and the calls a template makes          *)
(***************************************************************************)
AllTargets ==
    (DOMAIN GraphNodes) \cup (DOMAIN GraphSources) \cup (DOMAIN GraphMetrics)

Requester(kind, name, package_name, group, deps, materialized, strategy, batch) ==
    [kind |-> kind, unique_id |-> package_name \o "." \o name, name |-> name,
     package_name |-> package_name, group |-> group,
     depends_on |-> [nodes |-> deps],
     refs |-> <<>>, sources |-> <<>>, metrics |-> <<>>, extra_ctes |-> <<>>,
     relation_name |-> "dev." \o name,
     config |-> [kind |-> "NodeConfig", materialized |-> materialized,
                 incremental_strategy |-> strategy],
     batch |-> batch]

Batch(start, end) == [event_time_start |-> start, event_time_end |-> end]

Sample(start, end) == [start |-> start, end |-> end]

Requesters ==
    {Requester("ModelNode", "r1", "root", Str("g1"), AllTargets, "table", "none", NoneV),
     Requester("ModelNode", "r2", "root", NoneV, AllTargets,
               "incremental", "microbatch", Batch(2, 4)),
     Requester("ModelNode", "r3", "pkg", Str("g1"), {"model.root.a", "model.pkg.q"},
               "view", "none", NoneV),
     Requester("GenericTestNode", "t1", "root", NoneV, {}, "test", "none", NoneV),
     Requester("UnitTestNode", "u1", "root", NoneV, AllTargets, "unit", "none", NoneV)}

DefaultArgs ==
    [EMPTY |-> FALSE, sample |-> NoneV, defer |-> FALSE, favor_state |-> FALSE,
     selected_resources |-> {}]

RunArgs ==
    {[EMPTY |-> e, sample |-> s, defer |-> d.defer, favor_state |-> d.favor_state,
      selected_resources |-> d.selected] :
        e \in BOOLEAN, s \in {NoneV, Sample(1, 3)},
        d \in {[defer |-> FALSE, favor_state |-> FALSE, selected |-> {}],
               [defer |-> TRUE, favor_state |-> FALSE, selected |-> {}],
               [defer |-> TRUE, favor_state |-> TRUE, selected |-> {}],
               [defer |-> TRUE, favor_state |-> TRUE, selected |-> {"model.root.f"}]}}

NoKwargs == [version |-> NoneV, v |-> NoneV]

RefCalls ==
    {[args |-> x, kwargs |-> NoKwargs] :
        x \in {<<>>, <<Str("a")>>, <<Str("p")>>, <<Str("e")>>, <<Str("d")>>,
               <<Str("f")>>, <<Str("zz")>>, <<Str("pkg"), Str("q")>>,
               <<IntV(7)>>, <<IntV(7), Str("a")>>,
               <<Str("root"), Str("a"), Str("x")>>}}
    \cup {[args |-> <<Str("a")>>, kwargs |-> [version |-> IntV(0), v |-> IntV(2)]],
          [args |-> <<Str("a")>>, kwargs |-> [version |-> ListV, v |-> NoneV]]}

SourceCalls ==
    {<<>>, <<Str("src")>>, <<Str("src"), Str("t1")>>, <<Str("src"), Str("t2")>>,
     <<Str("src"), Str("zz")>>, <<IntV(7), Str("t1")>>, <<Str("src"), IntV(7)>>,
     <<Str("src"), Str("t1"), Str("x")>>}

MetricCalls ==
    {<<>>, <<Str("m")>>, <<Str("pkg"), Str("m2")>>, <<Str("md")>>, <<Str("zz")>>,
     <<IntV(7)>>, <<IntV(7), Str("m")>>, <<Str("root"), Str("m"), Str("x")>>}

Called(op, call, out) ==
    [op |-> op, outcome |-> out.outcome, call |-> call, out |-> out]

\* {{ ref(*args, **kwargs) }}; exists is what adapter.get_relation would answer
ref(call, exists) ==
    LET out == BaseRefResolver_call(Provider[provider].ref, model, args, manifest,
                                    call.args, call.kwargs, exists)
    IN  /\ ncalls < MaxCalls
        /\ ncalls' = ncalls + 1
        /\ model' = out.model
        /\ result' = Called("ref", call, out)
        /\ UNCHANGED <<provider, args, manifest>>
        /\ UNCHANGED contextVars
        /\ UNCHANGED accessorVars
        /\ UNCHANGED buildVars

\* {{ source(*args) }}
source(call_args) ==
    LET out == BaseSourceResolver_call(Provider[provider].source, model, args, manifest,
                                       call_args)
    IN  /\ ncalls < MaxCalls
        /\ ncalls' = ncalls + 1
        /\ model' = out.model
        /\ result' = Called("source", call_args, out)
        /\ UNCHANGED <<provider, args, manifest>>
        /\ UNCHANGED contextVars
        /\ UNCHANGED accessorVars
        /\ UNCHANGED buildVars

\* {{ metric(*args) }}
metric(call_args) ==
    LET out == BaseMetricResolver_call(Provider[provider].metric, model, manifest,
                                       call_args)
    IN  /\ ncalls < MaxCalls
        /\ ncalls' = ncalls + 1
        /\ model' = out.model
        /\ result' = Called("metric", call_args, out)
        /\ UNCHANGED <<provider, args, manifest>>
        /\ UNCHANGED contextVars
        /\ UNCHANGED accessorVars
        /\ UNCHANGED buildVars

Ref == \E call \in RefCalls, exists \in BOOLEAN : ref(call, exists)

Source == \E call_args \in SourceCalls : source(call_args)

Metric == \E call_args \in MetricCalls : metric(call_args)

(***************************************************************************)
(* Specifications                                                          *)
(***************************************************************************)
NoResolver ==
    /\ provider = "Runtime"
    /\ model = Requester("ModelNode", "r1", "root", Str("g1"), AllTargets, "table",
                         "none", NoneV)
    /\ args = DefaultArgs
    /\ manifest = Manifest(FALSE)
    /\ ncalls = 0

NoContext ==
    /\ sql_results = <<>>
    /\ loads_since_store = [k \in ResultNames |-> 0]
    /\ last_stored = [k \in ResultNames |-> NoneV]

NoAccessor ==
    /\ db_wrapper = NoneV
    /\ context_config = NoneV
    /\ ctx_dict = NoneV

NoBuild ==
    /\ macro_resolver = NoneV
    /\ self_namespace = NoneV
    /\ runtime_config = NoneV
    /\ var = NoneV
    /\ env = NoneV

\* a ProviderContext after __init__
ContextInit ==
    /\ NoContext
    /\ NoResolver
    /\ NoAccessor
    /\ NoBuild
    /\ result = NoCall

ContextNext == LoadResult \/ StoreResult \/ StoreRawResult

ContextSpec == ContextInit /\ [][ContextNext]_vars

\* a resolver set built for one requesting node; the run flags are read by the
\* execute-phase resolvers only, so the parse-phase providers start from the defaults;
\* the unit-test provider is only ever built for a unit test (UnitTestContext)
ResolverInit ==
    /\ NoContext
    /\ NoAccessor
    /\ NoBuild
    /\ provider \in DOMAIN Provider
    /\ model \in Requesters
    /\ provider = "RuntimeUnitTest" => model.kind = "UnitTestNode"
    /\ IF Provider[provider].execute
       THEN /\ args \in RunArgs
            /\ manifest \in {Manifest(FALSE), Manifest(TRUE)}
       ELSE /\ args = DefaultArgs
            /\ manifest = Manifest(TRUE)
    /\ ncalls = 0
    /\ result = NoCall

ResolverNext == Ref \/ Source \/ Metric

ResolverSpec == ResolverInit /\ [][ResolverNext]_vars

(***************************************************************************)
(* The event-time filter on its own: every window, requester and target    *)
(***************************************************************************)
Times == 0..MaxTime

Windows == {Sample(s, e) : s \in Times, e \in Times}

FilterRequesters ==
    {Requester(k.kind, "r", "root", NoneV, {}, k.materialized, k.strategy,
               IF b = NoneV THEN NoneV ELSE Batch(b.start, b.end)) :
        k \in {[kind |-> "ModelNode", materialized |-> "incremental",
                strategy |-> "microbatch"],
               [kind |-> "ModelNode", materialized |-> "incremental",
                strategy |-> "append"],
               [kind |-> "ModelNode", materialized |-> "table",
                strategy |-> "microbatch"],
               [kind |-> "SnapshotNode", materialized |-> "incremental",
                strategy |-> "microbatch"],
               [kind |-> "GenericTestNode", materialized |-> "test",
                strategy |-> "none"],
               [kind |-> "HookNode", materialized |-> "incremental",
                strategy |-> "microbatch"],
               [kind |-> "UnitTestNode", materialized |-> "incremental",
                strategy |-> "microbatch"],
               [kind |-> "Macro", materialized |-> "none",
                strategy |-> "none"]},
        b \in {NoneV} \cup Windows}

FilterTargets ==
    {[kind |-> "SourceDefinition", unique_id |-> "source.root.src.t", name |-> "t",
      relation_name |-> "raw.t",
      config |-> [kind |-> ck, event_time |-> et],
      columns |-> cols, quoting |-> q] :
        ck \in {"SourceConfig", "UnitTestNodeConfig"},
        et \in {NoneV, Str(""), Str("ts")},
        cols \in {<<>>,
                  <<ColumnInfo("ts", "None")>>,
                  <<ColumnInfo("ts", "True")>>,
                  <<ColumnInfo("id", "True"), ColumnInfo("ts", "False")>>},
        q \in {NoneV, [column |-> "None"], [column |-> "True"], [column |-> "False"]}}

\* one derivation of the filter for `target`, as create_relation asks for it
ResolveEventTimeFilter(target) ==
    /\ result = NoCall
    /\ result' = [op |-> "resolve_event_time_filter", outcome |-> "return",
                  target |-> target,
                  value |-> resolve_event_time_filter(model, target, args,
                                                      manifest.use_microbatch_batches)]
    /\ UNCHANGED <<provider, model, args, manifest, ncalls>>
    /\ UNCHANGED contextVars
    /\ UNCHANGED accessorVars
    /\ UNCHANGED buildVars

FilterInit ==
    /\ NoContext
    /\ NoAccessor
    /\ NoBuild
    /\ provider = "Runtime"
    /\ model \in FilterRequesters
    /\ args \in {[DefaultArgs EXCEPT !.sample = s] : s \in {NoneV} \cup Windows}
    /\ manifest \in {Manifest(FALSE), Manifest(TRUE)}
    /\ ncalls = 0
    /\ result = NoCall

FilterNext == \E target \in FilterTargets : ResolveEventTimeFilter(target)

FilterSpec == FilterInit /\ [][FilterNext]_vars

(***************************************************************************)
(* BaseDatabaseWrapper: macro dispatch                                     *)
(***************************************************************************)
MacroGenerator(package_name, name) ==
    [kind |-> "MacroGenerator", package_name |-> package_name, name |-> name]

MacroDispatchArgError(macro_name) ==
    [kind |-> "MacroDispatchArgError", macro_name |-> macro_name]

\* the error raised when every (package, prefix) combination missed
DispatchExhaustedError(macro_name, macro_namespace, attempts) ==
    [kind |-> "CompilationError", msg |-> "In dispatch: No macro named",
     macro_name |-> macro_name, macro_namespace |-> macro_namespace,
     searched |-> attempts]

Found(macro, search_packages) ==
    [outcome |-> "return", value |-> macro, search_packages |-> search_packages]

Failed(error, search_packages) ==
    [outcome |-> "raise", error |-> error, search_packages |-> search_packages]

\* MacroNamespace.get_from_package: the macro, None, or a CompilationError when the
\* namespace has no such package
get_from_package(w, package_name, name) ==
    IF package_name = NoneV
    THEN IF <<"", name>> \in w.macros THEN MacroGenerator("", name) ELSE NoneV
    ELSE IF package_name.s \notin w.packages
    THEN CompilationError("PackageNotFoundForMacroError")
    ELSE IF <<package_name.s, name>> \in w.macros
    THEN MacroGenerator(package_name.s, name)
    ELSE NoneV

get_adapter_type_names(w) == w.type_names

_get_adapter_macro_prefixes(w) == get_adapter_type_names(w) \o <<"default">>

get_macro_search_order(w, namespace) ==
    IF namespace \in DOMAIN w.macro_search_order
    THEN w.macro_search_order[namespace]
    ELSE NoneV

\* a known dependency searched on its own, without the current project
_get_search_packages_namespace_only(w, namespace) ==
    IF namespace = NoneV
    THEN Found(NoneV, <<NoneV>>)
    ELSE IF namespace.kind = "str"
    THEN LET macro_search_order == get_macro_search_order(w, namespace.s)
         IN  IF Truthy(macro_search_order)
             THEN Found(NoneV, macro_search_order.items)
             ELSE IF namespace.s \in w.dependencies
             THEN Found(NoneV, <<namespace>>)
             ELSE Found(NoneV, <<NoneV>>)
    ELSE Failed(CompilationError("macro_namespace should be None or a string"), <<>>)

_get_search_packages(w, namespace) ==
    IF namespace = NoneV
    THEN Found(NoneV, <<NoneV>>)
    ELSE IF namespace.kind = "str"
    THEN LET macro_search_order == get_macro_search_order(w, namespace.s)
         IN  IF Truthy(macro_search_order)
             THEN Found(NoneV, macro_search_order.items)
             ELSE IF namespace.s \in w.dependencies
             THEN Found(NoneV, <<Str(w.project_name), namespace>>)
             ELSE Found(NoneV, <<NoneV>>)
    ELSE Failed(CompilationError("macro_namespace should be None or a string"), <<>>)

\* "." in macro_name
contains_dot(macro_name) == macro_name \in {"pkg.some_macro"}

\* the scan with the loops swapped: every package under the first prefix first
search_order_prefix_major(search_packages, prefixes) ==
    [i \in 1..(Len(search_packages) * Len(prefixes)) |->
        [package_name |-> search_packages[((i - 1) % Len(search_packages)) + 1],
         prefix |-> prefixes[((i - 1) \div Len(search_packages)) + 1]]]

\* for package_name in search_packages: for prefix in prefixes
search_order(search_packages, prefixes) ==
    [i \in 1..(Len(search_packages) * Len(prefixes)) |->
        [package_name |-> search_packages[((i - 1) \div Len(prefixes)) + 1],
         prefix |-> prefixes[((i - 1) % Len(prefixes)) + 1]]]

search_name(prefix, macro_name) == prefix \o "__" \o macro_name

\* the qualification by the package left out
attempt_always_bare(package_name, name) == name

\* the entry appended to attempts
attempt(package_name, name) ==
    IF package_name = NoneV THEN name ELSE package_name.s \o "." \o name

\* try: get_from_package; except CompilationError: macro = None
lookup(w, package_name, name) ==
    LET macro == get_from_package(w, package_name, name)
    IN  IF macro.kind = "CompilationError" THEN NoneV ELSE macro

dispatch(w, macro_name, macro_namespace, packages) ==
    IF contains_dot(macro_name)
    THEN Failed(CompilationError("\".\" is not a valid macro name component"), <<>>)
    ELSE IF packages # NoneV
    THEN Failed(MacroDispatchArgError(macro_name), <<>>)
    ELSE LET search_packages == _get_search_packages(w, macro_namespace)
         IN  IF search_packages.outcome = "raise"
             THEN search_packages
             ELSE LET order == search_order(search_packages.search_packages,
                                            _get_adapter_macro_prefixes(w))
                      n == Len(order)
                      attempts == [i \in 1..n |->
                                     attempt(order[i].package_name,
                                             search_name(order[i].prefix, macro_name))]
                      scan[i \in 1..(n + 1)] ==
                          IF i > n
                          THEN Failed(DispatchExhaustedError(macro_name, macro_namespace,
                                                             attempts),
                                      search_packages.search_packages)
                          ELSE LET macro == lookup(w, order[i].package_name,
                                                   search_name(order[i].prefix,
                                                               macro_name))
                               IN  IF macro # NoneV
                                   THEN Found(macro, search_packages.search_packages)
                                   ELSE scan[i + 1]
                  IN  scan[1]

(***************************************************************************)
(* A database wrapper on its own: every namespace content and search order *)
(***************************************************************************)
MacroNames == {"some_macro", "other_macro", "pkg.some_macro"}

MacroNamespaces == {NoneV, Str("pkg"), Str("dep"), Str("zz"), IntV(7)}

PossibleMacros ==
    {<<p, n>> : p \in {"", "root", "pkg", "dep"},
                n \in {"postgres__some_macro", "default__some_macro"}}
    \cup {<<"", "redshift__some_macro">>, <<"pkg", "redshift__some_macro">>}

SearchOrders ==
    {<<>>, [pkg |-> List(<<>>)], [pkg |-> List(<<Str("pkg"), Str("root")>>)]}

Wrappers ==
    {[kind |-> "DatabaseWrapper", type_names |-> t, project_name |-> "root",
      dependencies |-> {"root", "pkg", "dep"}, macro_search_order |-> o,
      packages |-> pk, macros |-> ms] :
        t \in {<<"postgres">>, <<"redshift", "postgres">>},
        o \in SearchOrders,
        pk \in {{"root", "pkg", "dep"}, {"root", "pkg"}},
        ms \in SUBSET PossibleMacros}

\* {{ adapter.dispatch(macro_name, macro_namespace, packages) }}
Dispatch(macro_name, macro_namespace, packages) ==
    /\ result = NoCall
    /\ result' = [op |-> "dispatch", macro_name |-> macro_name,
                  macro_namespace |-> macro_namespace, packages |-> packages,
                  out |-> dispatch(db_wrapper, macro_name, macro_namespace, packages)]
    /\ UNCHANGED db_wrapper
    /\ UNCHANGED <<context_config, ctx_dict>>
    /\ UNCHANGED buildVars
    /\ UNCHANGED contextVars
    /\ UNCHANGED resolverVars

WrapperInit ==
    /\ NoContext
    /\ NoResolver
    /\ db_wrapper \in {w \in Wrappers : \A k \in w.macros : k[1] \in w.packages \cup {""}}
    /\ context_config = NoneV
    /\ ctx_dict = NoneV
    /\ NoBuild
    /\ result = NoCall

WrapperNext ==
    \E macro_name \in MacroNames, macro_namespace \in MacroNamespaces,
       packages \in {NoneV, ListV} :
        Dispatch(macro_name, macro_namespace, packages)

WrapperSpec == WrapperInit /\ [][WrapperNext]_vars

(***************************************************************************)
(* ParseConfigObject and RuntimeConfigObject: config(...) in a template    *)
(***************************************************************************)
ConflictingConfigKeysError(oldkey, newkey, node) ==
    [kind |-> "ConflictingConfigKeysError", oldkey |-> oldkey, newkey |-> newkey,
     node |-> node.unique_id]

InlineModelConfigError(node) ==
    [kind |-> "InlineModelConfigError", node |-> node.unique_id]

DbtRuntimeError(msg) == [kind |-> "DbtRuntimeError", msg |-> msg]

MissingConfigError(unique_id, name) ==
    [kind |-> "MissingConfigError", unique_id |-> unique_id, name |-> name]

ValidatorError(value) == [kind |-> "ValidatorError", value |-> value]

_MISSING == [kind |-> "_MISSING"]

\* outcome of a call on a config object; context_config is the handle afterwards
Done(value, cc) == [outcome |-> "return", value |-> value, context_config |-> cc]

Fails(error, cc) == [outcome |-> "raise", error |-> error, context_config |-> cc]

ContextConfig(config_calls, unrendered_config_calls) ==
    [kind |-> "ContextConfig", _config_calls |-> config_calls,
     _unrendered_config_calls |-> unrendered_config_calls]

\* ContextConfig.add_config_call
add_config_call(cc, opts) == [cc EXCEPT !._config_calls = Append(@, opts)]

\* ContextConfig.add_unrendered_config_call
add_unrendered_config_call(cc, opts) ==
    [cc EXCEPT !._unrendered_config_calls = Append(@, opts)]

\* statically_parse_unrendered_config(self.model.raw_code)
statically_parse_unrendered_config(m) == m.unrendered_config

\* oldkey.replace("_", "-")
replace_underscore(oldkey) ==
    CASE oldkey = "pre_hook" -> "pre-hook"
      [] oldkey = "post_hook" -> "post-hook"

\* the legacy key moved over the new key without the conflict test
transform_key_overwrites(m, config, oldkey) ==
    IF oldkey \in DOMAIN config
    THEN LET newkey == replace_underscore(oldkey)
         IN  Done([k \in (DOMAIN config \ {oldkey}) \cup {newkey} |->
                      IF k = newkey THEN config[oldkey] ELSE config[k]], NoneV)
    ELSE Done(config, NoneV)

\* one round of the loop of _transform_config
transform_key(m, config, oldkey) ==
    IF oldkey \in DOMAIN config
    THEN LET newkey == replace_underscore(oldkey)
         IN  IF newkey \in DOMAIN config
             THEN Fails(ConflictingConfigKeysError(oldkey, newkey, m), NoneV)
             ELSE Done([k \in (DOMAIN config \ {oldkey}) \cup {newkey} |->
                           IF k = newkey THEN config[oldkey] ELSE config[k]], NoneV)
    ELSE Done(config, NoneV)

_transform_config(m, config) ==
    LET pre == transform_key(m, config, "pre_hook")
    IN  IF pre.outcome = "raise" THEN pre ELSE transform_key(m, pre.value, "post_hook")

\* one positional argument taken as opts whatever the keyword arguments are
shape_positional_wins(call_args, kwargs) ==
    IF Len(call_args) = 1 THEN "args"
    ELSE IF Len(call_args) = 0 /\ Cardinality(DOMAIN kwargs) > 0 THEN "kwargs"
    ELSE "error"

\* which of *args and **kwargs carries the opts of a config(...) call
shape(call_args, kwargs) ==
    IF Len(call_args) = 1 /\ Cardinality(DOMAIN kwargs) = 0 THEN "args"
    ELSE IF Len(call_args) = 0 /\ Cardinality(DOMAIN kwargs) > 0 THEN "kwargs"
    ELSE "error"

ParseConfigObject_call(m, cc, flags, call_args, kwargs) ==
    IF shape(call_args, kwargs) = "error"
    THEN Fails(InlineModelConfigError(m), cc)
    ELSE LET opts == _transform_config(m, IF shape(call_args, kwargs) = "args"
                                          THEN call_args[1] ELSE kwargs)
         IN  IF opts.outcome = "raise"
             THEN Fails(opts.error, cc)
             ELSE IF cc = NoneV
             THEN Fails(DbtRuntimeError("At parse time, did not receive a context config"),
                        cc)
             ELSE LET unrendered_config == statically_parse_unrendered_config(m)
                      tracked ==
                          IF /\ flags.state_modified_compare_more_unrendered_values
                             /\ unrendered_config # NoneV
                          THEN add_unrendered_config_call(cc, unrendered_config)
                          ELSE cc
                  IN  Done(Str(""), add_config_call(tracked, opts.value))

ParseConfigObject_set(m, cc, flags, name, value) ==
    ParseConfigObject_call(m, cc, flags, <<[k \in {name} |-> value]>>, <<>>)

ParseConfigObject_require(cc, name, validator) == Done(Str(""), cc)

ParseConfigObject_get(cc, name, default, validator) == Done(Str(""), cc)

RuntimeConfigObject_call(cc, call_args, kwargs) == Done(Str(""), cc)

RuntimeConfigObject_set(cc, name, value) == RuntimeConfigObject_call(cc, <<>>, <<>>)

Validator(accepted) == [kind |-> "validator", accepted |-> accepted]

\* validator(value): returns, or raises what the validator raises
_validate(validator, value) == value \in validator.accepted

\* a value of None taken for the missing marker
_lookup_none_is_missing(m, name, default) ==
    LET found == IF "config" \notin DOMAIN m THEN default
                 ELSE IF name \in DOMAIN m.config THEN m.config[name] ELSE default
    IN  IF found = _MISSING \/ found = NoneV
        THEN Fails(MissingConfigError(m.unique_id, name), NoneV)
        ELSE Done(found, NoneV)

_lookup(m, name, default) ==
    LET found == IF "config" \notin DOMAIN m THEN default
                 ELSE IF name \in DOMAIN m.config THEN m.config[name] ELSE default
    IN  IF found = _MISSING
        THEN Fails(MissingConfigError(m.unique_id, name), NoneV)
        ELSE Done(found, NoneV)

RuntimeConfigObject_require(m, cc, name, validator) ==
    LET to_return == _lookup(m, name, _MISSING)
    IN  IF to_return.outcome = "raise" THEN Fails(to_return.error, cc)
        ELSE IF validator # NoneV /\ ~_validate(validator, to_return.value)
        THEN Fails(ValidatorError(to_return.value), cc)
        ELSE Done(to_return.value, cc)

RuntimeConfigObject_get(m, cc, name, default, validator) ==
    LET to_return == _lookup(m, name, default)
    IN  IF to_return.outcome = "raise" THEN Fails(to_return.error, cc)
        ELSE IF /\ validator # NoneV
                /\ default # NoneV
                /\ ~_validate(validator, to_return.value)
        THEN Fails(ValidatorError(to_return.value), cc)
        ELSE Done(to_return.value, cc)

(***************************************************************************)
(* A config object on its own: the calls of one template                   *)
(***************************************************************************)
Opts(keys) == [k \in keys |-> Str("value of " \o k)]

Dicts ==
    {Opts(keys) : keys \in {{}, {"materialized"}, {"pre_hook"}, {"pre-hook"},
                            {"pre_hook", "pre-hook"}, {"post_hook", "materialized"},
                            {"post_hook", "post-hook"}}}

ConfigCalls ==
    {[args |-> a, kwargs |-> kw] :
        a \in {<<>>} \cup {<<d>> : d \in Dicts}
               \cup {<<Opts({"materialized"}), Opts({"pre-hook"})>>},
        kw \in Dicts}

ConfigNames == {"materialized", "meta", "pre_hook", "zz"}

ConfigValues == {NoneV, Str("table"), Str("dflt")}

Validators ==
    {NoneV, Validator(ConfigValues), Validator({Str("table")}), Validator({Str("dflt")})}

ConfigRequesters ==
    {[kind |-> "ModelNode", unique_id |-> "model.root.r1",
      unrendered_config |-> u,
      config |-> [materialized |-> Str("table"), meta |-> NoneV]] :
        u \in {NoneV, Opts({"materialized"})}}
    \cup {[kind |-> "Macro", unique_id |-> "macro.root.mac", unrendered_config |-> NoneV]}

Configured(op, call, out) == [op |-> op, call |-> call, out |-> out]

\* {{ config(*args, **kwargs) }}
config(call) ==
    LET out == IF Provider[provider].Config = "ParseConfigObject"
               THEN ParseConfigObject_call(model, context_config, args,
                                           call.args, call.kwargs)
               ELSE RuntimeConfigObject_call(context_config, call.args, call.kwargs)
    IN  /\ ncalls < MaxCalls
        /\ ncalls' = ncalls + 1
        /\ context_config' = out.context_config
        /\ result' = Configured("config", call, out)
        /\ UNCHANGED <<provider, model, args, manifest, db_wrapper, ctx_dict>>
        /\ UNCHANGED buildVars
        /\ UNCHANGED contextVars

\* {{ config.set(name, value) }}
config_set(name, value) ==
    LET out == IF Provider[provider].Config = "ParseConfigObject"
               THEN ParseConfigObject_set(model, context_config, args, name, value)
               ELSE RuntimeConfigObject_set(context_config, name, value)
    IN  /\ ncalls < MaxCalls
        /\ ncalls' = ncalls + 1
        /\ context_config' = out.context_config
        /\ result' = Configured("config.set",
                                [args |-> <<[k \in {name} |-> value]>>, kwargs |-> <<>>],
                                out)
        /\ UNCHANGED <<provider, model, args, manifest, db_wrapper, ctx_dict>>
        /\ UNCHANGED buildVars
        /\ UNCHANGED contextVars

\* {{ config.require(name, validator) }}
config_require(name, validator) ==
    LET out == IF Provider[provider].Config = "ParseConfigObject"
               THEN ParseConfigObject_require(context_config, name, validator)
               ELSE RuntimeConfigObject_require(model, context_config, name, validator)
    IN  /\ ncalls < MaxCalls
        /\ ncalls' = ncalls + 1
        /\ context_config' = out.context_config
        /\ result' = Configured("config.require",
                                [name |-> name, validator |-> validator], out)
        /\ UNCHANGED <<provider, model, args, manifest, db_wrapper, ctx_dict>>
        /\ UNCHANGED buildVars
        /\ UNCHANGED contextVars

\* {{ config.get(name, default, validator) }}
config_get(name, default, validator) ==
    LET out == IF Provider[provider].Config = "ParseConfigObject"
               THEN ParseConfigObject_get(context_config, name, default, validator)
               ELSE RuntimeConfigObject_get(model, context_config, name, default,
                                            validator)
    IN  /\ ncalls < MaxCalls
        /\ ncalls' = ncalls + 1
        /\ context_config' = out.context_config
        /\ result' = Configured("config.get",
                                [name |-> name, default |-> default,
                                 validator |-> validator], out)
        /\ UNCHANGED <<provider, model, args, manifest, db_wrapper, ctx_dict>>
        /\ UNCHANGED buildVars
        /\ UNCHANGED contextVars

ConfigCall == \E call \in ConfigCalls : config(call)

ConfigSet == \E name \in {"materialized", "pre_hook"} : config_set(name, Str("table"))

ConfigRequire ==
    \E name \in ConfigNames, validator \in Validators : config_require(name, validator)

ConfigGet ==
    \E name \in ConfigNames, default \in ConfigValues, validator \in Validators :
        config_get(name, default, validator)

\* the parse phase hands the config object a ContextConfig (or none, for a context
\* that must not call config); the execute phase never gets one
ConfigInit ==
    /\ NoContext
    /\ provider \in DOMAIN Provider
    /\ model \in ConfigRequesters
    /\ args \in {[state_modified_compare_more_unrendered_values |-> b] : b \in BOOLEAN}
    /\ manifest = Manifest(FALSE)
    /\ ncalls = 0
    /\ db_wrapper = NoneV
    /\ ctx_dict = NoneV
    /\ NoBuild
    /\ context_config \in IF Provider[provider].Config = "ParseConfigObject"
                           THEN {NoneV, ContextConfig(<<>>, <<>>)}
                           ELSE {NoneV}
    /\ result = NoCall

ConfigNext == ConfigCall \/ ConfigSet \/ ConfigRequire \/ ConfigGet

ConfigSpec == ConfigInit /\ [][ConfigNext]_vars

(***************************************************************************)
(* generate_runtime_unit_test_context: macro overrides of a unit test      *)
(***************************************************************************)
UnitTestMacroGenerator(macro_generator, call_return_value) ==
    [kind |-> "UnitTestMacroGenerator", macro_generator |-> macro_generator,
     call_return_value |-> call_return_value]

Dict(items) == [kind |-> "dict", items |-> items]

\* d[key] = value on a dict value
DictSet(d, key, value) == Dict(SetItem(d.items, key, value))

\* d.get(key)
DictGet(d, key) == IF key \in DOMAIN d.items THEN d.items[key] ELSE NoneV

\* macro_name.split("."): the parts of a dotted name
macro_package_of(parts) == IF Len(parts) = 2 THEN Str(parts[1]) ELSE NoneV

macro_name_of(parts) == parts[Len(parts)]

\* a MacroGenerator of the context is wrapped, any other value is replaced
wrap_override(original_context_value, macro_value) ==
    IF original_context_value.kind = "MacroGenerator"
    THEN UnitTestMacroGenerator(original_context_value, macro_value)
    ELSE macro_value

\* an insertion-ordered dict as a sequence of entries: d[key] = value
OrderedSet(d, key, value) ==
    IF \E i \in 1..Len(d) : d[i].key = key
    THEN [i \in 1..Len(d) |-> IF d[i].key = key THEN [key |-> key, value |-> value]
                                ELSE d[i]]
    ELSE Append(d, [key |-> key, value |-> value])

\* first loop: split the overrides into global and package-namespaced ones;
\* macro_value is the loop variable as the loop leaves it
split_overrides(ctx, macros) ==
    LET step[i \in 0..Len(macros)] ==
            IF i = 0
            THEN [global_macro_overrides |-> <<>>, package_macro_overrides |-> <<>>,
                  macro_value |-> NoneV]
            ELSE LET acc == step[i - 1]
                     macro_package == macro_package_of(macros[i].name)
                     macro_name == macro_name_of(macros[i].name)
                 IN  IF macro_package = NoneV /\ macro_name \in DOMAIN ctx
                     THEN LET v == wrap_override(ctx[macro_name], macros[i].value)
                          IN  [acc EXCEPT
                                 !.global_macro_overrides = OrderedSet(@, macro_name, v),
                                 !.macro_value = v]
                     ELSE IF /\ macro_package # NoneV
                             /\ macro_package.s \in DOMAIN ctx
                             /\ macro_name \in DOMAIN ctx[macro_package.s].items
                     THEN LET v == wrap_override(ctx[macro_package.s].items[macro_name],
                                                 macros[i].value)
                          IN  [acc EXCEPT
                                 !.package_macro_overrides =
                                     OrderedSet(@, <<macro_package.s, macro_name>>, v),
                                 !.macro_value = v]
                     ELSE [acc EXCEPT !.macro_value = macros[i].value]
    IN  step[Len(macros)]

\* the value the package loop writes to the global namespace for a dbt macro
propagated_value(macro_override_value, macro_value) == macro_value

\* second loop: macro overrides of package-namespaced macros
apply_package_overrides(ctx, package_macro_overrides, macro_value) ==
    LET step[i \in 0..Len(package_macro_overrides)] ==
            IF i = 0 THEN ctx
            ELSE LET macro_package == package_macro_overrides[i].key[1]
                     macro_name == package_macro_overrides[i].key[2]
                     macro_override_value == package_macro_overrides[i].value
                     set == SetItem(step[i - 1], macro_package,
                                    DictSet(step[i - 1][macro_package], macro_name,
                                            macro_override_value))
                 IN  IF macro_package = "dbt"
                     THEN SetItem(set, macro_name,
                                  propagated_value(macro_override_value, macro_value))
                     ELSE set
    IN  step[Len(package_macro_overrides)]

\* the global loop run without the write to the dbt namespace
apply_global_overrides_top_level_only(ctx, global_macro_overrides) ==
    LET step[i \in 0..Len(global_macro_overrides)] ==
            IF i = 0 THEN ctx
            ELSE SetItem(step[i - 1], global_macro_overrides[i].key,
                         global_macro_overrides[i].value)
    IN  step[Len(global_macro_overrides)]

\* third loop: macro overrides of global macros
apply_global_overrides(ctx, global_macro_overrides) ==
    LET step[i \in 0..Len(global_macro_overrides)] ==
            IF i = 0 THEN ctx
            ELSE LET macro_name == global_macro_overrides[i].key
                     macro_override_value == global_macro_overrides[i].value
                     set == SetItem(step[i - 1], macro_name, macro_override_value)
                 IN  IF Truthy(DictGet(set["dbt"], macro_name))
                     THEN SetItem(set, "dbt",
                                  DictSet(set["dbt"], macro_name, macro_override_value))
                     ELSE set
    IN  step[Len(global_macro_overrides)]

generate_runtime_unit_test_context(unit_test, ctx) ==
    IF unit_test.overrides # NoneV /\ Len(unit_test.overrides.macros) > 0
    THEN LET split == split_overrides(ctx, unit_test.overrides.macros)
         IN  apply_global_overrides(
                 apply_package_overrides(ctx, split.package_macro_overrides,
                                         split.macro_value),
                 split.global_macro_overrides)
    ELSE ctx

(***************************************************************************)
(* The context of one unit test: every list of overrides                   *)
(***************************************************************************)
OverrideNames ==
    {<<"m">>, <<"dbt", "m">>, <<"pkg", "m">>, <<"n">>, <<"dbt", "zz">>,
     <<"a", "b", "n">>}

OverrideValue(parts) ==
    Str("return value of override " \o ToString(Len(parts)) \o parts[1]
        \o parts[Len(parts)])

\* overrides.macros: a dict, so no name twice; its order is the declaration order
MacroOverrides ==
    {macros \in UNION {[1..k -> OverrideNames] : k \in 0..MaxOverrides} :
        \A i, j \in 1..Len(macros) : macros[i] = macros[j] => i = j}

UnitTests ==
    {[kind |-> "UnitTestNode", unique_id |-> "unit_test.root.u1",
      overrides |-> [macros |-> [i \in 1..Len(macros) |->
                                   [name |-> macros[i],
                                    value |-> OverrideValue(macros[i])]]]] :
        macros \in MacroOverrides}
    \cup {[kind |-> "UnitTestNode", unique_id |-> "unit_test.root.u1",
           overrides |-> NoneV]}

\* ctx.to_dict(): top-level macros and values, and one dict per package; the
\* macros of the internal package dbt are top-level entries as well
ContextDicts ==
    {[k \in top \cup {"execute", "dbt", "pkg"} |->
        CASE k = "execute" -> Str("True")
          [] k = "dbt" -> Dict([n \in {"m", "n"} |-> MacroGenerator("dbt", n)])
          [] k = "pkg" -> Dict([n \in {"m"} |-> MacroGenerator("pkg", n)])
          [] OTHER -> MacroGenerator("root", k)] :
        top \in {{"m", "n"}, {"m", "n", "zz"}}}

GenerateRuntimeUnitTestContext ==
    /\ result = NoCall
    /\ ctx_dict' = generate_runtime_unit_test_context(model, ctx_dict)
    /\ result' = [op |-> "generate_runtime_unit_test_context", outcome |-> "return",
                  original |-> ctx_dict]
    /\ UNCHANGED <<db_wrapper, context_config>>
    /\ UNCHANGED buildVars
    /\ UNCHANGED contextVars
    /\ UNCHANGED resolverVars

UnitTestInit ==
    /\ NoContext
    /\ provider = "RuntimeUnitTest"
    /\ model \in UnitTests
    /\ args = DefaultArgs
    /\ manifest = Manifest(FALSE)
    /\ ncalls = 0
    /\ db_wrapper = NoneV
    /\ context_config = NoneV
    /\ ctx_dict \in ContextDicts
    /\ NoBuild
    /\ result = NoCall

UnitTestNext == GenerateRuntimeUnitTestContext

UnitTestSpec == UnitTestInit /\ [][UnitTestNext]_vars

(***************************************************************************)
(* TestContext._build_test_namespace: the macros of a schema test          *)
(***************************************************************************)
MaxMacros == 3

Elems(seq) == {seq[i] : i \in 1..Len(seq)}

\* MacroResolver.macros_by_name.get("get_where_subquery")
get_where_subquery(resolver) ==
    IF "get_where_subquery" \in DOMAIN resolver.macros_by_name
    THEN resolver.macros_by_name["get_where_subquery"]
    ELSE NoneV

\* the first entries of depends_on_macros: the helper, when the resolver has it
helper_macros(resolver) ==
    IF get_where_subquery(resolver) # NoneV
    THEN <<get_where_subquery(resolver).unique_id>>
    ELSE <<>>

\* the entries that follow: model.depends_on.macros, when there are any
declared_macros(node) ==
    IF node.depends_on # NoneV /\ node.depends_on.macros # <<>>
    THEN node.depends_on.macros
    ELSE <<>>

roots_declared_only(resolver, node) == declared_macros(node)

\* depends_on_macros before the lookup loop
roots(resolver, node) == helper_macros(resolver) \o declared_macros(node)

\* the lookup loop: one pass over a copy of the list, appending the
\* depends_on.macros of each entry the resolver knows
extend_with_dependencies(resolver, depends_on_macros) ==
    LET lookup_macros == depends_on_macros
        step[i \in 0..Len(lookup_macros)] ==
            IF i = 0 THEN depends_on_macros
            ELSE IF lookup_macros[i] \in DOMAIN resolver.macros
                 THEN step[i - 1] \o resolver.macros[lookup_macros[i]].depends_on.macros
                 ELSE step[i - 1]
    IN step[Len(lookup_macros)]

\* TestMacroNamespace(macro_resolver, ctx, node, thread_ctx, depends_on_macros):
\* the ids it is given and, recursively, the depends_on.macros of each
TestMacroNamespace(resolver, depends_on_macros) ==
    LET all == DOMAIN resolver.macros
        dep_macros[k \in 0..Cardinality(all)] ==
            IF k = 0 THEN Elems(depends_on_macros)
            ELSE dep_macros[k - 1] \cup
                 UNION {Elems(resolver.macros[u].depends_on.macros) :
                          u \in dep_macros[k - 1] \cap all}
    IN [kind |-> "TestMacroNamespace",
        depends_on_macros |-> depends_on_macros,
        dep_macros |-> dep_macros[Cardinality(all)]]

_build_test_namespace(resolver, node) ==
    TestMacroNamespace(resolver, extend_with_dependencies(resolver, roots(resolver, node)))

HelperId == "macro.dbt.get_where_subquery"

MacroId(i) == "macro.root.m" \o ToString(i)

Macro(unique_id, macros) == [unique_id |-> unique_id, depends_on |-> [macros |-> macros]]

\* the dependencies of macro i: none, the next macro, or back to the first
MacroDepends(i) ==
    {<<>>, <<MacroId(1)>>} \cup (IF i < MaxMacros THEN {<<MacroId(i + 1)>>} ELSE {})

MacroResolvers ==
    {[macros |-> [u \in {MacroId(i) : i \in 1..MaxMacros} \cup {HelperId} |->
                    IF u = HelperId THEN Macro(u, h)
                    ELSE Macro(u, d[CHOOSE i \in 1..MaxMacros : MacroId(i) = u])],
      macros_by_name |-> [n \in by_name |-> Macro(HelperId, h)]] :
        d \in {f \in [1..MaxMacros -> UNION {MacroDepends(i) : i \in 1..MaxMacros}] :
                 \A i \in 1..MaxMacros : f[i] \in MacroDepends(i)},
        h \in {<<>>, <<MacroId(1)>>, <<MacroId(2)>>},
        by_name \in {{}, {"get_where_subquery"}}}

TestNodes ==
    {[kind |-> "GenericTestNode", unique_id |-> "test.root.not_null_a",
      depends_on |-> d] :
        d \in {NoneV} \cup
              {[macros |-> ms] :
                 ms \in {<<>>, <<MacroId(1)>>, <<MacroId(MaxMacros)>>,
                         <<MacroId(2), "macro.root.unknown">>}}}

BuildTestNamespace ==
    /\ result = NoCall
    /\ self_namespace' = _build_test_namespace(macro_resolver, model)
    /\ result' = [op |-> "_build_test_namespace", outcome |-> "return"]
    /\ UNCHANGED <<macro_resolver, runtime_config, var, env>>
    /\ UNCHANGED accessorVars
    /\ UNCHANGED contextVars
    /\ UNCHANGED resolverVars

\* a TestContext after super().__init__, before _build_test_namespace
TestInit ==
    /\ NoContext
    /\ provider = "Parse"
    /\ model \in TestNodes
    /\ args = DefaultArgs
    /\ manifest = Manifest(FALSE)
    /\ ncalls = 0
    /\ NoAccessor
    /\ macro_resolver \in MacroResolvers
    /\ self_namespace = NoneV
    /\ runtime_config = NoneV
    /\ var = NoneV
    /\ env = NoneV
    /\ result = NoCall

TestNext == BuildTestNamespace

TestSpec == TestInit /\ [][TestNext]_vars

(***************************************************************************)
(* ProviderContext.env_var: the value of a variable and its bookkeeping    *)
(***************************************************************************)
SECRET_ENV_PREFIX == "DBT_ENV_SECRET"

DEFAULT_ENV_PLACEHOLDER == "DBT_DEFAULT_PLACEHOLDER"

SecretEnvVarLocationError(v) == [kind |-> "SecretEnvVarLocationError", var |-> v]

EnvVarMissingError(v) == [kind |-> "EnvVarMissingError", var |-> v]

\* the names a template may ask for, each with the prefix it starts with
EnvVarNames ==
    {[name |-> "DBT_TARGET", prefix |-> "DBT_TARGET"],
     [name |-> "HOME", prefix |-> "HOME"],
     [name |-> "DBT_ENV_SECRET_TOKEN", prefix |-> SECRET_ENV_PREFIX]}

\* var.startswith(prefix)
startswith(v, prefix) == v.prefix = prefix

\* hasattr(self.model, "compiled") and getattr(self.model, "compiled", False) is True
compiling(node) == node.compiled = "True"

\* source_file.env_vars.append(var)
append_env_var(env_vars, name) == Append(env_vars, name)

\* the bookkeeping of one successful lookup by a node that is not compiling
record_env_var(graph, node, environ, v, return_value) ==
    LET saved == [graph EXCEPT !.env_vars =
                    SetItem(graph.env_vars, v.name,
                            IF v.name \in DOMAIN environ THEN return_value
                            ELSE Str(DEFAULT_ENV_PLACEHOLDER))]
    IN IF node.file_id \in DOMAIN graph.files
          /\ graph.files[node.file_id].parse_file_type # "schema"
       THEN [saved EXCEPT !.files[node.file_id].env_vars =
                 append_env_var(graph.files[node.file_id].env_vars, v.name)]
       ELSE saved

env_var(graph, node, environ, v, default) ==
    LET return_value == IF v.name \in DOMAIN environ THEN environ[v.name]
                        ELSE IF default # NoneV THEN default
                        ELSE NoneV
    IN IF startswith(v, SECRET_ENV_PREFIX)
       THEN [outcome |-> "raise", error |-> SecretEnvVarLocationError(v.name),
             manifest |-> graph]
       ELSE IF return_value # NoneV
       THEN [outcome |-> "return", value |-> return_value,
             manifest |-> IF ~compiling(node)
                          THEN record_env_var(graph, node, environ, v, return_value)
                          ELSE graph]
       ELSE [outcome |-> "raise", error |-> EnvVarMissingError(v.name),
             manifest |-> graph]

\* the files of the graph: a model file, a schema file; hooks have no file
SourceFiles ==
    [f \in {"root://models/a.sql", "root://models/schema.yml"} |->
        [parse_file_type |-> IF f = "root://models/a.sql" THEN "model" ELSE "schema",
         env_vars |-> <<>>]]

EnvVarRequesters ==
    {[kind |-> "ModelNode", unique_id |-> "model.root.a", file_id |-> f,
      compiled |-> c] :
        f \in DOMAIN SourceFiles \cup {"root://dbt_project.yml"},
        c \in {"no attribute", "False", "True"}}

Environments ==
    {<<>>, [n \in {"DBT_TARGET"} |-> Str("dev")],
     [n \in {"DBT_TARGET", "DBT_ENV_SECRET_TOKEN"} |-> Str("dev")]}

EnvVar(v, default) ==
    LET out == env_var(manifest, model, env, v, default)
    IN  /\ ncalls < MaxCalls
        /\ ncalls' = ncalls + 1
        /\ manifest' = out.manifest
        /\ result' = [op |-> "env_var", var |-> v.name, default |-> default,
                      outcome |-> out.outcome,
                      out |-> [k \in DOMAIN out \ {"manifest"} |-> out[k]]]
        /\ UNCHANGED <<provider, model, args>>
        /\ UNCHANGED accessorVars
        /\ UNCHANGED buildVars
        /\ UNCHANGED contextVars

EnvVarInit ==
    /\ NoContext
    /\ provider \in {"Parse", "Runtime"}
    /\ model \in EnvVarRequesters
    /\ args = DefaultArgs
    /\ manifest = [env_vars |-> <<>>, files |-> SourceFiles]
    /\ ncalls = 0
    /\ NoAccessor
    /\ macro_resolver = NoneV
    /\ self_namespace = NoneV
    /\ runtime_config = NoneV
    /\ var = NoneV
    /\ env \in Environments
    /\ result = NoCall

EnvVarNext == \E v \in EnvVarNames, default \in {NoneV, Str("prod")} : EnvVar(v, default)

EnvVarSpec == EnvVarInit /\ [][EnvVarNext]_vars

(***************************************************************************)
(* UnitTestVar.__init__: the config a unit test's var resolver reads       *)
(***************************************************************************)
\* a RuntimeConfig object: which object it is, and its cli_vars
RuntimeConfig(object, cli_vars) == [object |-> object, cli_vars |-> cli_vars]

same_object(obj) == obj

\* deepcopy(config): another object with equal contents
deepcopy(obj) == [obj EXCEPT !.object = "copy of " \o obj.object]

\* dict.update
update(d, other) ==
    [k \in DOMAIN d \cup DOMAIN other |-> IF k \in DOMAIN other THEN other[k] ELSE d[k]]

\* node.overrides and node.overrides.vars
has_var_overrides(node) ==
    /\ node.overrides # NoneV
    /\ node.overrides.vars # <<>>

\* the object the run shares, after an assignment to the fields of written
shared_after(shared, written) ==
    IF written.object = shared.object THEN written ELSE shared

\* the resolver built, and the shared config as construction leaves it
UnitTestVar(shared, node) ==
    IF has_var_overrides(node)
    THEN LET config_copy == deepcopy(shared)
             updated == [config_copy EXCEPT
                           !.cli_vars = update(@, node.overrides.vars)]
         IN [var |-> [kind |-> "UnitTestVar", _config |-> updated, _node |-> node.unique_id],
             config |-> shared_after(shared, updated)]
    ELSE [var |-> [kind |-> "UnitTestVar", _config |-> shared, _node |-> node.unique_id],
          config |-> shared]

VarDicts ==
    UNION {[names -> {IntV(1), IntV(2)}] : names \in SUBSET {"a", "b"}}

VarOverrides ==
    {NoneV} \cup
    {[macros |-> <<>>, vars |-> vs] :
        vs \in UNION {[names -> {IntV(3), IntV(4)}] : names \in SUBSET {"a", "c"}}}

VarUnitTests ==
    {[kind |-> "UnitTestNode", unique_id |-> "unit_test.root.u1", overrides |-> o] :
        o \in VarOverrides}

ConstructUnitTestVar ==
    LET out == UnitTestVar(runtime_config, model)
    IN  /\ var = NoneV
        /\ var' = out.var
        /\ runtime_config' = out.config
        /\ result' = [op |-> "UnitTestVar", outcome |-> "return",
                      config |-> runtime_config]
        /\ UNCHANGED <<macro_resolver, self_namespace, env>>
        /\ UNCHANGED accessorVars
        /\ UNCHANGED contextVars
        /\ UNCHANGED resolverVars

UnitTestVarInit ==
    /\ NoContext
    /\ provider = "RuntimeUnitTest"
    /\ model \in VarUnitTests
    /\ args = DefaultArgs
    /\ manifest = Manifest(FALSE)
    /\ ncalls = 0
    /\ NoAccessor
    /\ macro_resolver = NoneV
    /\ self_namespace = NoneV
    /\ runtime_config \in {RuntimeConfig("config", vs) : vs \in VarDicts}
    /\ var = NoneV
    /\ env = NoneV
    /\ result = NoCall

UnitTestVarNext == ConstructUnitTestVar

UnitTestVarSpec == UnitTestVarInit /\ [][UnitTestVarNext]_vars

(***************************************************************************)
(* Properties of the stored-result map (ContextSpec)                       *)
(***************************************************************************)
AlreadyLoaded(name) ==
    Raised("load_result", name, MacroResultAlreadyLoadedError(name))

\* the last call was a load_result of a name that has been stored before
LoadedAfterStore ==
    /\ result.op = "load_result"
    /\ last_stored[result.name] # NoneV

\* first load since the last store returns the stored value, later ones raise
OnceThenRaises ==
    IF loads_since_store[result.name] = 1
    THEN result = Returned("load_result", result.name, last_stored[result.name])
    ELSE result = AlreadyLoaded(result.name)

\* C1 as stated: for every result key k, after store_result(k, ...) the first
\* load_result(k) returns the stored value and every further load_result(k) with
\* no store_result(k) in between raises already-consumed naming k.
C1_AsStated == LoadedAfterStore => OnceThenRaises

\* C1 amended: the same, for every result key k other than "main": the first
\* load_result(k) after a store_result(k, ...) returns the stored value, every
\* further one raises already-consumed naming k, and a store_result(k) after
\* consumption makes k loadable exactly once again.
C1_LoadOnce == (LoadedAfterStore /\ result.name # "main") => OnceThenRaises

\* a second load_result("x") with no store in between has raised
C1_Witness ==
    /\ result = AlreadyLoaded("x")
    /\ loads_since_store["x"] = 2

\* every key of the map is available (an AttrDict) or consumed (None)
AvailableOrConsumed ==
    /\ DOMAIN sql_results \subseteq ResultNames
    /\ \A k \in DOMAIN sql_results :
          sql_results[k] = NoneV \/ sql_results[k].kind = "AttrDict"

\* what one step may do to the map
KeysKeptAndLoadsTold ==
    /\ DOMAIN sql_results \subseteq DOMAIN sql_results'
    /\ \A k \in ResultNames :
          (result'.op = "load_result" /\ result'.name = k) =>
             /\ k \notin DOMAIN sql_results =>
                   /\ result' = Returned("load_result", k, NoneV)
                   /\ k \notin DOMAIN sql_results'
             /\ (k \in DOMAIN sql_results /\ sql_results[k] = NoneV) =>
                   result' = AlreadyLoaded(k)

\* C2: a key of the stored-result map is absent, available or consumed (mapped
\* to None); the map starts empty; no operation removes a key; load_result of an
\* absent key returns None without error and leaves the key absent; load_result
\* of a consumed key raises instead of returning None.
C2_ThreeStates ==
    /\ sql_results = <<>>
    /\ []AvailableOrConsumed
    /\ [][KeysKeptAndLoadsTold]_vars

\* "y" was loaded while absent, with "x" consumed and "main" available
C2_Witness ==
    /\ result = Returned("load_result", "y", NoneV)
    /\ DOMAIN sql_results = {"main", "x"}
    /\ sql_results["x"] = NoneV
    /\ sql_results["main"] # NoneV

(***************************************************************************)
(* Properties of the resolvers (ResolverSpec)                              *)
(***************************************************************************)
RuntimeFamily == {"Runtime", "RuntimeUnitTest", "Operation"}

CallName(call) == IF Len(call.args) = 1 THEN call.args[1] ELSE call.args[2]

CallPackage(call) == IF Len(call.args) = 1 THEN NoneV ELSE call.args[1]

CallVersion(call) ==
    IF Truthy(call.kwargs.version) THEN call.kwargs.version ELSE call.kwargs.v

AllStrings(call_args) == \A i \in 1..Len(call_args) : call_args[i].kind = "str"

ValidRefCall(call) ==
    /\ Len(call.args) \in {1, 2}
    /\ AllStrings(call.args)
    /\ CallVersion(call).kind \in {"None", "str", "int", "float"}

ValidSourceCall(call_args) == Len(call_args) = 2 /\ AllStrings(call_args)

ValidMetricCall(call_args) == Len(call_args) \in {1, 2} /\ AllStrings(call_args)

GraphLookups ==
    {"manifest.resolve_ref", "manifest.resolve_source", "manifest.resolve_metric"}

Made(calls) == {calls[i] : i \in 1..Len(calls)}

\* the step is one resolver call
ResolverCall == ncalls' = ncalls + 1

ParseRefRecords ==
    (result'.op = "ref" /\ ValidRefCall(result'.call)) =>
       /\ model'.refs = Append(model.refs,
                               RefArgs(CallPackage(result'.call), CallName(result'.call),
                                       CallVersion(result'.call)))
       /\ model'.sources = model.sources
       /\ model'.metrics = model.metrics
       /\ Made(result'.out.calls) \cap GraphLookups = {}
       /\ result'.outcome = "return"
       /\ result'.out.value.kind = "Relation"
       /\ result'.out.value.relation_name = model.relation_name

ParseSourceRecords ==
    (result'.op = "source" /\ ValidSourceCall(result'.call)) =>
       /\ model'.sources = Append(model.sources, <<result'.call[1], result'.call[2]>>)
       /\ model'.refs = model.refs
       /\ model'.metrics = model.metrics
       /\ Made(result'.out.calls) \cap GraphLookups = {}
       /\ result'.outcome = "return"
       /\ result'.out.value.kind = "Relation"
       /\ result'.out.value.relation_name = model.relation_name

ParseMetricRecords ==
    (result'.op = "metric" /\ ValidMetricCall(result'.call)) =>
       /\ model'.metrics = Append(model.metrics, result'.call)
       /\ model'.refs = model.refs
       /\ model'.sources = model.sources
       /\ Made(result'.out.calls) \cap GraphLookups = {}
       /\ result'.outcome = "return"

\* C3: under the Parse provider every ref(), source() or metric() call with a
\* valid arity and valid argument types appends exactly one entry, at the end, to
\* the requesting node's refs, sources or metrics list respectively and to no
\* other list, makes no graph lookup, and (ref, source) returns a placeholder
\* relation of the requesting node.
C3_ParseRecords ==
    [][(provider = "Parse" /\ ResolverCall) =>
          (ParseRefRecords /\ ParseSourceRecords /\ ParseMetricRecords)]_vars

\* two different refs were recorded, in call order
C3_Witness ==
    /\ provider = "Parse"
    /\ result.op = "ref"
    /\ Len(model.refs) = 2
    /\ model.refs[1].name = Str("p")
    /\ model.refs[2] = RefArgs(Str("pkg"), Str("q"), NoneV)

ArityError(kind) ==
    /\ result.outcome = "raise"
    /\ result.out.error.kind = kind
    /\ result.out.error.node = model.unique_id
    /\ result.out.error.args = IF result.op = "ref" THEN result.call.args
                               ELSE result.call

\* C4: in every resolver variant ref accepts exactly 1 or 2 positional arguments,
\* source exactly 2 and metric exactly 1 or 2; a call with any other number of
\* positional arguments raises the arity error carrying the requesting node and
\* the arguments, before resolve is invoked, and no accepted arity raises it.
C4_Arity ==
    /\ result.op = "ref" =>
          /\ ArityError("RefArgsError") <=> Len(result.call.args) \notin {1, 2}
          /\ ArityError("RefArgsError") => result.out.calls = <<>>
    /\ result.op = "source" =>
          /\ ArityError("NumberSourceArgsError") <=> Len(result.call) # 2
          /\ ArityError("NumberSourceArgsError") => result.out.calls = <<>>
    /\ result.op = "metric" =>
          /\ ArityError("MetricArgsError") <=> Len(result.call) \notin {1, 2}
          /\ ArityError("MetricArgsError") => result.out.calls = <<>>

\* the unit-test source resolver has refused a three-argument call
C4_Witness ==
    /\ provider = "RuntimeUnitTest"
    /\ result.op = "source"
    /\ Len(result.call) = 3
    /\ ArityError("NumberSourceArgsError")

\* what the graph answers to the last ref call
RefTarget ==
    resolve_ref(manifest, model, CallName(result.call), CallPackage(result.call),
                CallVersion(result.call), current_project, model.package_name)

RuntimeRef ==
    /\ result.op = "ref"
    /\ provider \in RuntimeFamily
    /\ ValidRefCall(result.call)

Resolves(target) == target # NoneV /\ target.kind # "Disabled"

\* C5: a runtime ref whose graph lookup returns Disabled or nothing fails with
\* target-not-found of kind "node" carrying the attempted name, package and
\* version, with disabled true iff the lookup returned Disabled, and nothing is
\* done after the lookup (no access check, dependency check or relation).
C5_NotFound ==
    (RuntimeRef /\ ~Resolves(RefTarget)) =>
       /\ result.outcome = "raise"
       /\ result.out.error =
             [kind |-> "TargetNotFoundError", node |-> model.unique_id,
              target_name |-> CallName(result.call), target_kind |-> "node",
              target_package |-> CallPackage(result.call),
              target_version |-> CallVersion(result.call),
              disabled |-> (RefTarget # NoneV)]
       /\ result.out.calls = <<"resolve", "manifest.resolve_ref">>

\* a ref to a disabled model was refused
C5_Witness ==
    /\ RuntimeRef
    /\ RefTarget # NoneV
    /\ RefTarget.kind = "Disabled"
    /\ result.out.error.disabled

InsideScope(m, target) ==
    /\ target.access = "private" => m.group = target.group
    /\ target.access = "protected" => m.package_name = target.package_name

AccessViolation == result.outcome = "raise" /\ result.out.error.kind = "DbtReferenceError"

\* C6: for a runtime ref whose target resolves: an invalid private ref fails with
\* an access violation (Private, scope = the target's group) naming both unique
\* ids; otherwise an invalid protected ref fails with Protected and scope = the
\* target's package; a requester inside the allowed scope is never rejected.
C6_Access ==
    (RuntimeRef /\ Resolves(RefTarget)) =>
       /\ is_invalid_private_ref(model, RefTarget, "dependencies") =>
             /\ result.outcome = "raise"
             /\ result.out.error =
                   [kind |-> "DbtReferenceError", unique_id |-> model.unique_id,
                    ref_unique_id |-> RefTarget.unique_id, access |-> "Private",
                    scope |-> RefTarget.group]
       /\ (/\ ~is_invalid_private_ref(model, RefTarget, "dependencies")
           /\ is_invalid_protected_ref(model, RefTarget, "dependencies")) =>
             /\ result.outcome = "raise"
             /\ result.out.error =
                   [kind |-> "DbtReferenceError", unique_id |-> model.unique_id,
                    ref_unique_id |-> RefTarget.unique_id, access |-> "Protected",
                    scope |-> Str(RefTarget.package_name)]
       /\ InsideScope(model, RefTarget) => ~AccessViolation

\* a requester outside group g1 was refused the private model p
C6_Witness ==
    /\ RuntimeRef
    /\ AccessViolation
    /\ result.out.error.access = "Private"
    /\ result.out.error.scope = Str("g1")
    /\ model.group # Str("g1")

PassesAccess ==
    /\ RuntimeRef
    /\ Resolves(RefTarget)
    /\ ~is_invalid_private_ref(model, RefTarget, "dependencies")
    /\ ~is_invalid_protected_ref(model, RefTarget, "dependencies")

NotDeclared == result.outcome = "raise" /\ result.out.error.kind = "RefBadContextError"

\* C7: for a ref whose target resolves and passes the access checks: under the
\* Runtime provider it fails with dependency-not-declared when the target's
\* unique id is not in the requester's depends_on.nodes and returns a relation
\* when it is; under the Operation provider no ref fails with
\* dependency-not-declared, whatever the requester's dependency set.
C7_Dependency ==
    /\ (PassesAccess /\ provider = "Runtime") =>
          IF RefTarget.unique_id \in model.depends_on.nodes
          THEN result.outcome = "return" /\ result.out.value.kind = "Relation"
          ELSE /\ NotDeclared
               /\ result.out.error.node = model.unique_id
    /\ (result.op = "ref" /\ provider = "Operation") => ~NotDeclared

\* the Runtime provider refused a ref the requester had not declared
C7_Witness ==
    /\ PassesAccess
    /\ provider = "Runtime"
    /\ RefTarget.unique_id \notin model.depends_on.nodes
    /\ NotDeclared

\* what the graph answers to the last source or metric call
SourceOrMetricTarget ==
    IF result.op = "source"
    THEN resolve_source(manifest, result.call[1], result.call[2], current_project,
                        model.package_name)
    ELSE resolve_metric(manifest,
                        IF Len(result.call) = 1 THEN result.call[1] ELSE result.call[2],
                        IF Len(result.call) = 1 THEN NoneV ELSE result.call[1],
                        current_project, model.package_name)

RuntimeSourceOrMetric ==
    /\ provider = "Runtime"
    /\ \/ result.op = "source" /\ ValidSourceCall(result.call)
       \/ result.op = "metric" /\ ValidMetricCall(result.call)

\* C8 as stated: under the Runtime provider a source() or metric() call whose
\* resolved target is not in the requester's dependency set fails.
C8_AsStated ==
    (/\ RuntimeSourceOrMetric
     /\ Resolves(SourceOrMetricTarget)
     /\ SourceOrMetricTarget.unique_id \notin model.depends_on.nodes)
       => result.outcome = "raise"

\* C8 amended: under the Runtime provider source() and metric() calls perform the
\* graph lookup but make no declared-dependency validation: the call fails if and
\* only if the lookup returns Disabled or nothing, whatever the requester's
\* dependency set.
C8_LookupOnly ==
    RuntimeSourceOrMetric =>
       /\ result.out.calls[2] \in GraphLookups
       /\ "validate" \notin Made(result.out.calls)
       /\ result.outcome = "raise" <=> ~Resolves(SourceOrMetricTarget)

\* source() returned a relation to a requester that never declared the source
C8_Witness ==
    /\ RuntimeSourceOrMetric
    /\ result.op = "source"
    /\ Resolves(SourceOrMetricTarget)
    /\ SourceOrMetricTarget.unique_id \notin model.depends_on.nodes
    /\ result.outcome = "return"

(***************************************************************************)
(* Properties of the event-time filter (FilterSpec)                        *)
(***************************************************************************)
Max(x, y) == IF x >= y THEN x ELSE y

Min(x, y) == IF x <= y THEN x ELSE y

Filtered == result.op = "resolve_event_time_filter"

\* the target declares an event-time column
DeclaresEventTime(target) ==
    /\ target.config.kind \in {"NodeConfig", "SeedConfig", "SourceConfig"}
    /\ target.config.event_time \notin {NoneV, Str("")}

\* the requester is a microbatch-incremental model with an assigned batch and
\* batching is active for the project
MicrobatchRequester ==
    /\ model.kind = "ModelNode"
    /\ model.config.materialized = "incremental"
    /\ model.config.incremental_strategy = "microbatch"
    /\ manifest.use_microbatch_batches
    /\ model.batch # NoneV

\* C9: for a microbatch-incremental requester with batch [B0,B1), batching
\* active, a target declaring event time and a sampled run with window [S,E),
\* the filter window is [max(S,B0), min(E,B1)); its start is never earlier than
\* either start and its end never later than either end.
C9_SampledBatchWindow ==
    (/\ Filtered
     /\ MicrobatchRequester
     /\ DeclaresEventTime(result.target)
     /\ args.sample # NoneV) =>
       /\ result.value # NoneV
       /\ result.value.start = Max(args.sample.start, model.batch.event_time_start)
       /\ result.value.end = Min(args.sample.end, model.batch.event_time_end)
       /\ result.value.start >= args.sample.start
       /\ result.value.start >= model.batch.event_time_start
       /\ result.value.end <= args.sample.end
       /\ result.value.end <= model.batch.event_time_end

\* S < B0 < E < B1 gave the window [B0, E)
C9_Witness ==
    /\ Filtered
    /\ MicrobatchRequester
    /\ args.sample = Sample(0, 2)
    /\ model.batch = Batch(1, 3)
    /\ result.value # NoneV
    /\ result.value.start = 1
    /\ result.value.end = 2

\* C10: for a microbatch-incremental requester with batch [B0,B1), batching
\* active, a target declaring event time and a run that is not sampled, the
\* filter window is the batch window [B0,B1) exactly.
C10_BatchWindow ==
    (/\ Filtered
     /\ MicrobatchRequester
     /\ DeclaresEventTime(result.target)
     /\ args.sample = NoneV) =>
       /\ result.value # NoneV
       /\ result.value.start = model.batch.event_time_start
       /\ result.value.end = model.batch.event_time_end

\* an unsampled microbatch run was filtered to its batch [1, 3)
C10_Witness ==
    /\ Filtered
    /\ MicrobatchRequester
    /\ args.sample = NoneV
    /\ model.batch = Batch(1, 3)
    /\ result.value # NoneV
    /\ result.value.start = 1
    /\ result.value.end = 3

\* the requesting resource is a model or a snapshot
ModelOrSnapshot == model.kind \in {"ModelNode", "SnapshotNode"}

\* C11: resolve_event_time_filter returns a filter only if the target's config
\* declares a non-empty event-time column and the requesting resource is a model
\* or a snapshot, whatever the sample, the microbatch configuration and the batch.
C11_FilterGating ==
    (Filtered /\ result.value # NoneV) =>
       /\ result.target.config.event_time \notin {NoneV, Str("")}
       /\ ModelOrSnapshot

\* a test requester in a sampled run asked for a target declaring event time and
\* got no filter
C11_Witness ==
    /\ Filtered
    /\ model.kind = "GenericTestNode"
    /\ args.sample = Sample(0, 2)
    /\ DeclaresEventTime(result.target)
    /\ result.value = NoneV

\* C12: when the gating passes and the microbatch case does not apply, a sampled
\* run is filtered to exactly the sample window [start,end) and an unsampled run
\* gets no filter; when the microbatch case applies it decides the window of a
\* sampled run (the sample clamped to the batch), not the plain sample case.
C12_SampleWindow ==
    (Filtered /\ DeclaresEventTime(result.target) /\ ModelOrSnapshot) =>
       /\ (~MicrobatchRequester /\ args.sample # NoneV) =>
              /\ result.value # NoneV
              /\ result.value.start = args.sample.start
              /\ result.value.end = args.sample.end
       /\ (~MicrobatchRequester /\ args.sample = NoneV) => result.value = NoneV
       /\ (MicrobatchRequester /\ args.sample # NoneV) =>
              /\ result.value # NoneV
              /\ result.value.start >= model.batch.event_time_start
              /\ result.value.end <= model.batch.event_time_end

\* a snapshot requester in a run sampled to [1, 3) was filtered to [1, 3)
C12_Witness ==
    /\ Filtered
    /\ model.kind = "SnapshotNode"
    /\ DeclaresEventTime(result.target)
    /\ args.sample = Sample(1, 3)
    /\ result.value # NoneV
    /\ result.value.start = 1
    /\ result.value.end = 3

\* the declared columns of the target named like its event-time column
EventTimeColumns(target) ==
    {i \in 1..Len(target.columns) :
        Str(target.columns[i].name) = target.config.event_time}

\* the explicit quote setting of the declared event-time column
ColumnQuote(target) ==
    target.columns[CHOOSE i \in EventTimeColumns(target) :
                      \A j \in EventTimeColumns(target) : i <= j].quote

\* the target's own quoting default for columns
TargetColumnQuoting(target) ==
    IF target.quoting = NoneV THEN "None" ELSE target.quoting.column

QuotingApplies(target) ==
    /\ EventTimeColumns(target) # {}
    /\ \/ ColumnQuote(target) = "True"
       \/ ColumnQuote(target) = "None" /\ TargetColumnQuoting(target) = "True"

\* C13: the field name of the filter is the configured event-time column, quoted
\* iff the target declares a column of that name whose explicit quote setting is
\* true or, lacking an explicit setting, the target's column quoting default is
\* true; otherwise (no matching column, or nothing set, or the column says
\* false) it is the raw configured name.
C13_FieldName ==
    (Filtered /\ result.value # NoneV) =>
       result.value.field_name =
          IF QuotingApplies(result.target)
          THEN Str(Quoted(result.target.config.event_time.s))
          ELSE result.target.config.event_time

\* a column declared with quote=false under a target default of true gave the raw name
C13_Witness ==
    /\ Filtered
    /\ result.value # NoneV
    /\ EventTimeColumns(result.target) # {}
    /\ ColumnQuote(result.target) = "False"
    /\ TargetColumnQuoting(result.target) = "True"
    /\ result.value.field_name = Str("ts")

(***************************************************************************)
(* Properties of the unit-test resolvers (ResolverSpec)                    *)
(***************************************************************************)
UnitTestRef ==
    /\ provider = "RuntimeUnitTest"
    /\ result.op = "ref"
    /\ result.outcome = "return"

\* C14: a relation returned by ref under the unit-test provider carries no
\* result-row limit and no event-time filter, whatever the empty flag, the sample
\* flag and the event-time configuration of the target are.
C14_UnitTestRef ==
    UnitTestRef =>
       /\ result.out.value.limit = NoneV
       /\ result.out.value.event_time_filter = NoneV

\* a unit test of an --empty, sampled run referenced a model declaring event time
C14_Witness ==
    /\ UnitTestRef
    /\ args.EMPTY
    /\ args.sample # NoneV
    /\ Resolves(RefTarget)
    /\ RefTarget.config.event_time = Str("ts")
    /\ result.out.value.limit = NoneV
    /\ result.out.value.event_time_filter = NoneV

(***************************************************************************)
(* Properties of macro dispatch (WrapperSpec)                              *)
(***************************************************************************)
\* a dispatch call that passed its argument checks and built its search packages
Scanned ==
    /\ result.op = "dispatch"
    /\ ~contains_dot(result.macro_name)
    /\ result.packages = NoneV
    /\ result.macro_namespace.kind \in {"None", "str"}

\* concrete adapter type, parent adapter types in declared order, then "default"
Prefixes == db_wrapper.type_names \o <<"default">>

Searched == result.out.search_packages

PrefixedName(x) == Prefixes[x] \o "__" \o result.macro_name

\* the namespace holds a macro for search package p under prefix x
Present(p, x) ==
    IF Searched[p] = NoneV
    THEN <<"", PrefixedName(x)>> \in db_wrapper.macros
    ELSE /\ Searched[p].s \in db_wrapper.packages
         /\ <<Searched[p].s, PrefixedName(x)>> \in db_wrapper.macros

Hits ==
    {h \in (1..Len(Searched)) \X (1..Len(Prefixes)) : Present(h[1], h[2])}

\* package-major, prefix-minor
NotAfter(h, g) == h[1] < g[1] \/ (h[1] = g[1] /\ h[2] <= g[2])

MacroAt(h) ==
    MacroGenerator(IF Searched[h[1]] = NoneV THEN "" ELSE Searched[h[1]].s,
                   PrefixedName(h[2]))

\* C15: dispatch returns the first macro found when the search packages are
\* scanned in order and, within each package, the prefixes in the order adapter
\* type, parent types, "default", under the name "{prefix}__{macro_name}"; it
\* returns a macro only if some combination holds one.
C15_FirstMatch ==
    Scanned =>
       /\ Hits # {} =>
              /\ result.out.outcome = "return"
              /\ \E h \in Hits :
                     /\ \A g \in Hits : NotAfter(h, g)
                     /\ result.out.value = MacroAt(h)
       /\ result.out.outcome = "return" => Hits # {}

\* a match in the first package under "default" won over a match in the second
\* package under the adapter's own type
C15_Witness ==
    /\ Scanned
    /\ result.macro_name = "some_macro"
    /\ Searched = <<Str("pkg"), Str("root")>>
    /\ db_wrapper.type_names = <<"postgres">>
    /\ <<"pkg", "postgres__some_macro">> \notin db_wrapper.macros
    /\ <<"pkg", "default__some_macro">> \in db_wrapper.macros
    /\ <<"root", "postgres__some_macro">> \in db_wrapper.macros
    /\ result.out.outcome = "return"
    /\ result.out.value = MacroGenerator("pkg", "default__some_macro")

\* C16: when no (search package, prefix) combination holds a macro, dispatch
\* raises a compilation error whose list of attempts has exactly one entry per
\* pair, in scan order: the bare prefixed name for the unqualified search and
\* "package.prefixed-name" otherwise; a package the namespace does not know
\* counts as a miss and the scan goes on.
C16_Exhaustion ==
    (Scanned /\ Hits = {}) =>
       /\ result.out.outcome = "raise"
       /\ result.out.error.kind = "CompilationError"
       /\ Len(result.out.error.searched) = Len(Searched) * Len(Prefixes)
       /\ \A p \in 1..Len(Searched), x \in 1..Len(Prefixes) :
              result.out.error.searched[(p - 1) * Len(Prefixes) + x] =
                 IF Searched[p] = NoneV
                 THEN PrefixedName(x)
                 ELSE Searched[p].s \o "." \o PrefixedName(x)

\* the namespace did not know package dep: its lookups raised, and the error
\* still lists both packages under both prefixes
C16_Witness ==
    /\ Scanned
    /\ result.macro_name = "some_macro"
    /\ result.macro_namespace = Str("dep")
    /\ "dep" \notin db_wrapper.packages
    /\ db_wrapper.type_names = <<"postgres">>
    /\ result.out.outcome = "raise"
    /\ result.out.error.searched =
          <<"root.postgres__some_macro", "root.default__some_macro",
            "dep.postgres__some_macro", "dep.default__some_macro">>

\* dispatch got past its checks of macro_name and packages
NamespaceRead ==
    /\ result.op = "dispatch"
    /\ ~contains_dot(result.macro_name)
    /\ result.packages = NoneV

ConfiguredOrder ==
    IF /\ result.macro_namespace.kind = "str"
       /\ result.macro_namespace.s \in DOMAIN db_wrapper.macro_search_order
       /\ Len(db_wrapper.macro_search_order[result.macro_namespace.s].items) > 0
    THEN db_wrapper.macro_search_order[result.macro_namespace.s].items
    ELSE <<>>

KnownDependency ==
    /\ result.macro_namespace.kind = "str"
    /\ result.macro_namespace.s \in db_wrapper.dependencies

TypeError ==
    /\ result.out.outcome = "raise"
    /\ result.out.error.kind = "CompilationError"
    /\ result.out.error.msg = "macro_namespace should be None or a string"

\* C17 as stated: no namespace gives the unqualified search, a configured search
\* order gives that order, a known dependency gives [current project, namespace],
\* and every other namespace, an unknown string included, fails as a type error.
C17_AsStated ==
    NamespaceRead =>
       IF result.macro_namespace = NoneV THEN Searched = <<NoneV>>
       ELSE IF ConfiguredOrder # <<>> THEN Searched = ConfiguredOrder
       ELSE IF KnownDependency
       THEN Searched = <<Str(db_wrapper.project_name), result.macro_namespace>>
       ELSE result.out.outcome = "raise"

\* C17 (amended): as above, except that a string namespace with no configured
\* search order that is not a known dependency gives the unqualified search, like
\* no namespace; only a namespace that is neither None nor a string fails as a
\* type error, and then no macro is returned.
C17_SearchPackages ==
    NamespaceRead =>
       IF result.macro_namespace = NoneV THEN Searched = <<NoneV>>
       ELSE IF ConfiguredOrder # <<>> THEN Searched = ConfiguredOrder
       ELSE IF KnownDependency
       THEN Searched = <<Str(db_wrapper.project_name), result.macro_namespace>>
       ELSE IF result.macro_namespace.kind = "str" THEN Searched = <<NoneV>>
       ELSE TypeError

\* dispatch("some_macro", "zz") for an unknown namespace zz returned the
\* unqualified default__some_macro
C17_Witness ==
    /\ NamespaceRead
    /\ result.macro_name = "some_macro"
    /\ result.macro_namespace = Str("zz")
    /\ result.out.outcome = "return"
    /\ result.out.value = MacroGenerator("", "default__some_macro")

(***************************************************************************)
(* Properties of the config objects (ConfigSpec)                           *)
(***************************************************************************)
ParsePhaseConfig == Provider[provider].Config = "ParseConfigObject"

\* the pending config calls of the node
Pending == IF context_config = NoneV THEN <<>> ELSE context_config._config_calls

\* a step that is a parse-phase config(...) call
ParseConfigStep ==
    /\ ParsePhaseConfig
    /\ ncalls' = ncalls + 1
    /\ result'.op = "config"

\* one positional argument and no keyword, or keywords and no positional
AcceptedShape(call) ==
    \/ Len(call.args) = 1 /\ DOMAIN call.kwargs = {}
    \/ Len(call.args) = 0 /\ DOMAIN call.kwargs # {}

ShapeError(out) ==
    out.outcome = "raise" /\ out.error.kind = "InlineModelConfigError"

\* C18: a parse-phase config(...) call raises the inline-config shape error iff
\* it has not exactly one positional argument and no keyword argument, nor at
\* least one keyword argument and no positional one; a call that raises records
\* nothing, a call that returns appends exactly one entry at the end of the
\* pending config calls, and no other call on the config object changes the list.
C18_ConfigShape ==
    [][/\ ParseConfigStep =>
            /\ ShapeError(result'.out) <=> ~AcceptedShape(result'.call)
            /\ result'.out.outcome = "raise" => context_config' = context_config
            /\ result'.out.outcome = "return" =>
                   /\ Len(Pending') = Len(Pending) + 1
                   /\ SubSeq(Pending', 1, Len(Pending)) = Pending
       /\ (ParsePhaseConfig /\ result'.op \in {"config.require", "config.get"}) =>
            context_config' = context_config]_vars

\* an accepted call was recorded, then a call mixing a positional argument with
\* keywords raised the shape error and the list kept its one entry
C18_Witness ==
    /\ ParsePhaseConfig
    /\ ncalls = 2
    /\ result.op = "config"
    /\ Len(result.call.args) = 1
    /\ DOMAIN result.call.kwargs # {}
    /\ ShapeError(result.out)
    /\ Len(Pending) = 1

\* the opts of a call of accepted shape
GivenOpts(call) == IF Len(call.args) = 1 THEN call.args[1] ELSE call.kwargs

BothSpellings(opts) ==
    \/ {"pre_hook", "pre-hook"} \subseteq DOMAIN opts
    \/ {"post_hook", "post-hook"} \subseteq DOMAIN opts

Hyphenated(k) ==
    IF k = "pre_hook" THEN "pre-hook" ELSE IF k = "post_hook" THEN "post-hook" ELSE k

\* C19: a parse-phase config(...) call of accepted shape that gives both spellings
\* of a hook raises conflicting-keys and records nothing; otherwise, with a config
\* handle, it records its opts with pre_hook and post_hook renamed to pre-hook and
\* post-hook and every value kept; no recorded call holds an underscore-spelled
\* hook key.
C19_HookKeys ==
    [][(ParseConfigStep /\ AcceptedShape(result'.call)) =>
          LET opts == GivenOpts(result'.call)
          IN  /\ BothSpellings(opts) =>
                     /\ result'.out.outcome = "raise"
                     /\ result'.out.error.kind = "ConflictingConfigKeysError"
                     /\ context_config' = context_config
              /\ (~BothSpellings(opts) /\ context_config # NoneV) =>
                     /\ result'.out.outcome = "return"
                     /\ DOMAIN Pending'[Len(Pending')] = {Hyphenated(k) : k \in DOMAIN opts}
                     /\ \A k \in DOMAIN opts :
                            Pending'[Len(Pending')][Hyphenated(k)] = opts[k]
              /\ \A i \in 1..Len(Pending') :
                     DOMAIN Pending'[i] \cap {"pre_hook", "post_hook"} = {}]_vars

\* config(pre_hook=...) was recorded under pre-hook, then a call with both
\* spellings raised conflicting-keys and the list kept its one entry
C19_Witness ==
    /\ ParsePhaseConfig
    /\ ncalls = 2
    /\ result.op = "config"
    /\ AcceptedShape(result.call)
    /\ BothSpellings(GivenOpts(result.call))
    /\ result.out.outcome = "raise"
    /\ result.out.error.kind = "ConflictingConfigKeysError"
    /\ Pending = <<[k \in {"pre-hook"} |-> Str("value of pre_hook")]>>

ExecutePhaseConfig == Provider[provider].Config = "RuntimeConfigObject"

\* the key is absent from the resource's config, or the resource has no config
Absent(name) == "config" \notin DOMAIN model \/ name \notin DOMAIN model.config

MissingConfig(out, name) ==
    /\ out.outcome = "raise"
    /\ out.error.kind = "MissingConfigError"
    /\ out.error.unique_id = model.unique_id
    /\ out.error.name = name

\* C20: at execute time require(name) raises missing-config, naming the resource
\* and the key, iff the key is absent from the resource's config or the resource
\* has no config; get(name, default) never raises missing-config, and for an
\* absent key it returns default whenever it returns and always when no validator
\* is given.
C20_RequireGet ==
    /\ (ExecutePhaseConfig /\ result.op = "config.require") =>
          /\ MissingConfig(result.out, result.call.name) <=> Absent(result.call.name)
          /\ Absent(result.call.name) => result.out.outcome = "raise"
    /\ (ExecutePhaseConfig /\ result.op = "config.get") =>
          /\ ~(result.out.outcome = "raise" /\ result.out.error.kind = "MissingConfigError")
          /\ (Absent(result.call.name) /\ result.out.outcome = "return") =>
                 result.out.value = result.call.default
          /\ (Absent(result.call.name) /\ result.call.validator = NoneV) =>
                 result.out.outcome = "return"

\* a macro, which has no config, required a key and got missing-config
C20_Witness ==
    /\ ExecutePhaseConfig
    /\ model.kind = "Macro"
    /\ result.op = "config.require"
    /\ MissingConfig(result.out, "materialized")

\* the value require / get resolved: the config's own, else the default
Resolved(call) ==
    IF ~Absent(call.name) THEN model.config[call.name] ELSE call.default

\* C21: at execute time, whenever a validator is given, require and get run it
\* against the resolved value, for every default: a value the validator rejects
\* makes the call raise what the validator raises.
C21_ValidatorRuns ==
    /\ (/\ ExecutePhaseConfig
        /\ result.op = "config.require"
        /\ result.call.validator # NoneV
        /\ ~Absent(result.call.name)
        /\ model.config[result.call.name] \notin result.call.validator.accepted) =>
          /\ result.out.outcome = "raise"
          /\ result.out.error.kind = "ValidatorError"
    /\ (/\ ExecutePhaseConfig
        /\ result.op = "config.get"
        /\ result.call.validator # NoneV
        /\ Resolved(result.call) \notin result.call.validator.accepted) =>
          /\ result.out.outcome = "raise"
          /\ result.out.error.kind = "ValidatorError"

(***************************************************************************)
(* Properties of the unit-test context assembly (UnitTestSpec)             *)
(***************************************************************************)
Assembled == result.op = "generate_runtime_unit_test_context"

\* the unit test declares an override under this dotted name
Declared(parts) ==
    /\ model.overrides # NoneV
    /\ \E i \in 1..Len(model.overrides.macros) : model.overrides.macros[i].name = parts

\* the value of the global override of m: the original top-level macro, overridden
GlobalOverride(m) ==
    UnitTestMacroGenerator(result.original[m], OverrideValue(<<m>>))

\* the value of the override of package.m
PackageOverride(package, m) ==
    UnitTestMacroGenerator(result.original[package].items[m],
                           OverrideValue(<<package, m>>))

\* C22: when a unit test declares both a global override of m and an override of
\* pkg.m, in either order, the top-level entry m holds the global override after
\* assembly, and for pkg = dbt so does the entry m of the dbt namespace.
C22_GlobalWins ==
    (/\ Assembled
     /\ Declared(<<"m">>)
     /\ Declared(<<"dbt", "m">>) \/ Declared(<<"pkg", "m">>)) =>
       /\ ctx_dict["m"] = GlobalOverride("m")
       /\ Declared(<<"dbt", "m">>) => ctx_dict["dbt"].items["m"] = GlobalOverride("m")

\* m declared first, dbt.m second: both entries hold the global override
C22_Witness ==
    /\ Assembled
    /\ model.overrides # NoneV
    /\ Len(model.overrides.macros) = 2
    /\ model.overrides.macros[1].name = <<"m">>
    /\ model.overrides.macros[2].name = <<"dbt", "m">>
    /\ ctx_dict["m"] = GlobalOverride("m")
    /\ ctx_dict["dbt"].items["m"] = GlobalOverride("m")

\* C23: when a unit test declares an override of dbt.m and no global override of
\* m, both the entry m of the dbt namespace and the top-level entry m hold that
\* override's own value after assembly, whatever else is declared and in
\* whatever order.
C23_Propagated ==
    (/\ Assembled
     /\ Declared(<<"dbt", "m">>)
     /\ ~Declared(<<"m">>)) =>
       /\ ctx_dict["dbt"].items["m"] = PackageOverride("dbt", "m")
       /\ ctx_dict["m"] = PackageOverride("dbt", "m")

(***************************************************************************)
(* Properties of the schema-test macro namespace (TestSpec)                *)
(***************************************************************************)
\* a macro the resolver has and that names v in its depends_on.macros
DependsOn(u, v) ==
    /\ u \in DOMAIN macro_resolver.macros
    /\ v \in Elems(macro_resolver.macros[u].depends_on.macros)

\* the roots of the claim: the declared dependencies of the test and the helper
NamespaceRoots ==
    (IF model.depends_on = NoneV THEN {} ELSE Elems(model.depends_on.macros))
    \cup (IF "get_where_subquery" \in DOMAIN macro_resolver.macros_by_name
          THEN {macro_resolver.macros_by_name["get_where_subquery"].unique_id}
          ELSE {})

AllMacroIds ==
    DOMAIN macro_resolver.macros \cup NamespaceRoots

C25_Idempotent ==
    [][(/\ result.op = "env_var"
        /\ result.outcome = "return"
        /\ result'.op = "env_var"
        /\ result'.var = result.var
        /\ ncalls' = ncalls + 1
        /\ ~compiling(model)) =>
          /\ manifest'.env_vars = manifest.env_vars
          /\ manifest'.files = manifest.files]_vars

(***************************************************************************)
(* Properties of the unit-test var resolver (UnitTestVarSpec)              *)
(***************************************************************************)
\* C26: a unit test that declares variable overrides gets a var resolver that
\* reads a copy of the run configuration in which each overridden name has the
\* test's value and every other CLI variable its own; the configuration the
\* run shares is as it was before. Without overrides the resolver reads the
\* run's configuration itself.
C26_LayeredOverrides ==
    result.op = "UnitTestVar" =>
        /\ runtime_config = result.config
        /\ IF has_var_overrides(model)
           THEN /\ var._config.object # runtime_config.object
                /\ \A k \in DOMAIN model.overrides.vars :
                      var._config.cli_vars[k] = model.overrides.vars[k]
                /\ \A k \in DOMAIN runtime_config.cli_vars \ DOMAIN model.overrides.vars :
                      var._config.cli_vars[k] = runtime_config.cli_vars[k]
                /\ DOMAIN var._config.cli_vars =
                      DOMAIN runtime_config.cli_vars \cup DOMAIN model.overrides.vars
           ELSE var._config = runtime_config

\* the test overrides a, which the command line sets too, and adds c; the
\* command line's b is kept and the shared configuration still has its own a
C26_Witness ==
    /\ result.op = "UnitTestVar"
    /\ has_var_overrides(model)
    /\ DOMAIN model.overrides.vars = {"a", "c"}
    /\ DOMAIN runtime_config.cli_vars = {"a", "b"}
    /\ var._config.cli_vars["a"] = IntV(3)
    /\ var._config.cli_vars["b"] = runtime_config.cli_vars["b"]
    /\ runtime_config.cli_vars["a"] # IntV(3)

(***************************************************************************)
(* Properties of relation building and of the order of the checks          *)
(* (ResolverSpec)                                                          *)
(***************************************************************************)
\* the last call was a ref of a runtime resolver that got to create_relation
BuiltRelation ==
    /\ result.op = "ref"
    /\ provider \in {"Runtime", "RuntimeUnitTest"}
    /\ "create_relation" \in Elems(result.out.calls)

Probes ==
    {i \in 1..Len(result.out.calls) :
        result.out.calls[i] \in {get_relation(TRUE), get_relation(FALSE)}}

ProbeFoundNothing == get_relation(FALSE) \in Elems(result.out.calls)

FavorsState(target) ==
    args.favor_state /\ target.unique_id \notin args.selected_resources

\* C27: a runtime ref that builds a relation takes exactly one branch. An
\* ephemeral target is registered as a CTE of the requester and returned as an
\* ephemeral relation. Any other target is returned as its deferred counterpart
\* if and only if defer is on, the target has a deferred counterpart, and either
\* favor-state is set and the target is not selected or the adapter's probe found
\* nothing; otherwise as its own relation. The probe is not issued for an
\* ephemeral target, with defer off, without a deferred counterpart, or when the
\* favor-state condition holds.
C27_OneBranch ==
    BuiltRelation =>
       /\ result.outcome = "return"
       /\ IF RefTarget.is_ephemeral_model
          THEN /\ result.out.value.factory = "create_ephemeral_from"
               /\ result.out.value.relation_name = "__dbt__cte__" \o RefTarget.name
               /\ RefTarget.unique_id \in Elems(model.extra_ctes)
          ELSE /\ result.out.value.factory = "create_from"
               /\ RefTarget.unique_id \notin Elems(model.extra_ctes)
               /\ IF /\ args.defer
                     /\ RefTarget.defer_relation # NoneV
                     /\ FavorsState(RefTarget) \/ ProbeFoundNothing
                  THEN result.out.value.relation_name = RefTarget.defer_relation.relation_name
                  ELSE result.out.value.relation_name = RefTarget.relation_name
       /\ Cardinality(Probes) <= 1
       /\ Probes # {} =>
             /\ ~RefTarget.is_ephemeral_model
             /\ args.defer
             /\ RefTarget.defer_relation # NoneV
             /\ ~FavorsState(RefTarget)

\* favor-state substituted the deferred relation of an unselected target
\* without asking the adapter
C27_Witness ==
    /\ BuiltRelation
    /\ args.defer
    /\ FavorsState(RefTarget)
    /\ RefTarget.defer_relation # NoneV
    /\ result.out.value.relation_name = RefTarget.defer_relation.relation_name
    /\ Probes = {}

\* the checks of resolve, in the order of the resolution algorithm
ChecksOrder ==
    <<"resolve", "manifest.resolve_ref", "manifest.is_invalid_private_ref",
      "manifest.is_invalid_protected_ref", "validate", "create_relation">>

OutsideGroup == RefTarget.access = "private" /\ model.group # RefTarget.group

OutsidePackage ==
    RefTarget.access = "protected" /\ model.package_name # RefTarget.package_name

Undeclared ==
    provider # "Operation" /\ RefTarget.unique_id \notin model.depends_on.nodes

\* the number of entries of ChecksOrder entered before resolve stops, and the
\* error of the first check that fails
FirstFailure ==
    IF ~Resolves(RefTarget) THEN [steps |-> 2, kind |-> "TargetNotFoundError"]
    ELSE IF OutsideGroup THEN [steps |-> 3, kind |-> "Private"]
    ELSE IF OutsidePackage THEN [steps |-> 4, kind |-> "Protected"]
    ELSE IF Undeclared THEN [steps |-> 5, kind |-> "RefBadContextError"]
    ELSE [steps |-> 6, kind |-> "none"]

ReportedFailure ==
    IF result.outcome = "return" THEN "none"
    ELSE IF result.out.error.kind = "DbtReferenceError" THEN result.out.error.access
    ELSE IF result.out.error.kind = "OperationsCannotRefEphemeralNodesError" THEN "none"
    ELSE result.out.error.kind

\* C28: a runtime ref looks the target up, then checks not-found, private
\* access, protected access and the declared dependency, in this order, and
\* only then builds the relation. It stops at the first check that fails and
\* reports that one, whatever later checks the target violates as well; nothing
\* of relation building (CTE registration, probe, relation) is done before every
\* check has passed.
C28_CheckOrder ==
    RuntimeRef =>
       /\ ReportedFailure = FirstFailure.kind
       /\ Len(result.out.calls) >= FirstFailure.steps
       /\ SubSeq(result.out.calls, 1, FirstFailure.steps)
             = SubSeq(ChecksOrder, 1, FirstFailure.steps)
       /\ FirstFailure.kind # "none" => Len(result.out.calls) = FirstFailure.steps
       /\ \A i \in 1..Len(result.out.calls) :
             result.out.calls[i] \notin Elems(ChecksOrder) => i > Len(ChecksOrder)

\* a private model that the requester has not declared either: reported as the
\* access violation, and nothing was built
C28_Witness ==
    /\ RuntimeRef
    /\ Resolves(RefTarget)
    /\ OutsideGroup
    /\ Undeclared
    /\ result.out.error.kind = "DbtReferenceError"
    /\ result.out.error.access = "Private"
    /\ Len(result.out.calls) = 3

(***************************************************************************)
(* Properties of the result named "main" (ContextSpec)                     *)
(***************************************************************************)
\* C29: load_result("main") does not consume. Once "main" has been stored its
\* entry is the stored value, never the consumed marker, however many loads
\* followed the store, and each load_result("main") returns that value and does
\* not raise.
C29_MainNeverConsumed ==
    last_stored["main"] # NoneV =>
       /\ "main" \in DOMAIN sql_results
       /\ sql_results["main"] = last_stored["main"]
       /\ (result.op = "load_result" /\ result.name = "main") =>
             /\ result.outcome = "return"
             /\ result.value = last_stored["main"]

\* as many loads of "main" in a row as the bound allows, the last one served
C29_Witness ==
    /\ loads_since_store["main"] = MaxLoads
    /\ result.op = "load_result"
    /\ result.name = "main"
    /\ result.outcome = "return"
    /\ result.value = last_stored["main"]
    /\ result.value # NoneV

(***************************************************************************)
(* Properties of failing calls (ResolverSpec)                              *)
(***************************************************************************)
\* C30: under every provider a ref, source or metric call that raises leaves
\* the requesting node as it was (its refs, sources, metrics and CTEs
\* included), and no call, failing or not, changes the tables of the graph.
C30_FailureFrame ==
    [][ncalls' = ncalls + 1 =>
          /\ result'.outcome = "raise" => model' = model
          /\ manifest' = manifest]_vars

\* a parse-time call failed after an earlier one had been recorded on the node
C30_Witness ==
    /\ provider = "Parse"
    /\ ncalls = 2
    /\ result.outcome = "raise"
    /\ Len(model.refs) + Len(model.sources) + Len(model.metrics) = 1

====
